---- MODULE Spec2Model ----
(***************************************************************************)
(* A model of argusAI/testrun-investigator/testrun_investigator/           *)
(* victoria_logs.py: the VictoriaLogsHandler task registry, the background *)
(* ingestion worker (download, unpack, file search, line-by-line batching, *)
(* batch POST with retries) and the synchronous entry points.              *)
(*                                                                         *)
(* Conventions.  A Python Optional[str] is a sequence of length at most    *)
(* one: None is <<>> and the string s is <<s>>.  A parsed JSON object is a *)
(* function from its keys to its values.  File paths are sequences of path *)
(* components below the run's cache directory.                             *)
(***************************************************************************)
EXTENDS Naturals, Integers, Sequences, FiniteSets, TLC

VARIABLES
    task_status,    \* self.task_status: task id -> record (victoria_logs.py:118)
    thread_starts,  \* the worker threads started so far: a sequence of [task_id, download_url, run_id]
    wk,             \* task id -> the state of the worker thread started for it
    cache,          \* run id -> what lies under CACHE_DIR/<run id>
    ret,            \* the outcome of the last synchronous call on the handler
    seen,           \* task id -> the first terminal record a poll returned, then the latest later one
    batch_size,     \* the batch size the handler runs with (INGESTION_BATCH_SIZE, scaled in Spec)
    env             \* the surroundings of one behaviour: the download URLs callers pass, the ids
                    \* uuid4 can return, whether a batch POST can fail, and the requests
                    \* whose server may take the request and never answer it
VARIABLES
    task_lock,      \* self.task_lock: the thread that holds it, None when it is free
    callers,        \* thread -> a call of a registry method in progress, step by step
    heap            \* the dict objects of the registry: the objects, and for each task id
                    \* the object self.task_status[task_id] refers to

vars ==
    <<task_status, thread_starts, wk, cache, ret, seen, batch_size, env, task_lock, callers, heap>>

(***************************************************************************)
(* Program constants.                                                      *)
(***************************************************************************)
INGESTION_BATCH_SIZE == 1000
MAX_RETRIES == 3
RETRY_BACKOFF_FACTOR == 2
REQUEST_TIMEOUT == 30

(***************************************************************************)
(* Bounds of the model.                                                    *)
(***************************************************************************)
\* The batch size of the concurrent specification: the code compares
\* len(batch_lines) with INGESTION_BATCH_SIZE only, so its files are scaled.
SmallBatch == 2

None == <<>>
Some(s) == <<s>>

\* The ids str(uuid.uuid4()) can return in one behaviour.
TaskIdPool == {"task-1", "task-2"}
\* Run ids callers pass that parse as a UUID, and ones that do not.
ValidRunIds == {"run-a", "run-b"}
InvalidRunIds == {"invalid-uuid"}

\* uuid.UUID(s) succeeds: s is the text of a UUID.  Every id uuid4 returns is one.
EventIds == {"event-1"}
IsUUID(s) == s \in ValidRunIds \cup TaskIdPool \cup EventIds

(***************************************************************************)
(* Log files.  A line of a log file is one of: a JSON object, text that is *)
(* not JSON, a blank (empty or whitespace-only) line, or JSON that is not  *)
(* an object (a number, a string, an array, null).  Two kinds of line make *)
(* the interpreter raise something other than json.JSONDecodeError: JSON   *)
(* nested deeper than the recursion limit (RecursionError), and a line too *)
(* long for the memory of the process (MemoryError, whose text is empty).  *)
(***************************************************************************)
Obj(o) == [kind |-> "object", obj |-> o]
Malformed == [kind |-> "malformed", obj |-> [id |-> 0]]
Blank == [kind |-> "blank", obj |-> [id |-> 0]]
NonObject == [kind |-> "nonobject", obj |-> [id |-> 0]]
DeeplyNested == [kind |-> "deep", obj |-> [id |-> 0]]
Huge == [kind |-> "huge", obj |-> [id |-> 0]]

\* The small files of the concurrent specification, by number.
SmallFiles ==
    << << Obj([id |-> 1]), Malformed, Obj([id |-> 2, run_id |-> "other"]), Blank, Obj([id |-> 3]) >>,
       << Obj([id |-> 11, stream |-> "x"]) >>,
       << Obj([id |-> 21]), NonObject, Obj([id |-> 22]) >>,
       << >>,
       << Obj([id |-> 31]), Huge, Obj([id |-> 32]) >>,
       << Obj([id |-> 41]), DeeplyNested >> >>

SmallFile(k) == [gen |-> "small", n |-> k]
\* A generated file of n lines: every line an object ("clean"), or with blank
\* and malformed lines among them ("dirty").
BigFile(g, len) == [gen |-> g, n |-> len]

NumLines(f) == IF f.gen = "small" THEN Len(SmallFiles[f.n]) ELSE f.n

LineAt(f, i) ==
    IF f.gen = "small" THEN SmallFiles[f.n][i]
    ELSE IF f.gen = "clean" THEN Obj([id |-> i])
    ELSE IF i % 7 = 3 THEN Blank
    ELSE IF i % 5 = 1 THEN Malformed
    ELSE IF i % 4 = 0 THEN Obj([id |-> i, run_id |-> "other"])
    ELSE Obj([id |-> i])

(***************************************************************************)
(* Archives a download URL can serve: whether the body decompresses and    *)
(* untars, its member files by path, and the members whose names lead out  *)
(* of the directory they are extracted into ("../<directory>/<path>"), by   *)
(* the directory under CACHE_DIR and the path they name.                   *)
(***************************************************************************)
ACTIONS_LOG == "actions.log"
RAW_EVENTS_LOG == "raw_events.log"

Archives ==
    [ both    |-> [valid |-> TRUE, outside |-> <<>>,
                   members |-> (<<ACTIONS_LOG>> :> SmallFile(1)) @@ (<<RAW_EVENTS_LOG>> :> SmallFile(2))],
      nested  |-> [valid |-> TRUE, outside |-> <<>>,
                   members |-> (<<"sct-results", RAW_EVENTS_LOG>> :> SmallFile(3))],
      tiny    |-> [valid |-> TRUE, outside |-> <<>>,
                   members |-> (<<ACTIONS_LOG>> :> SmallFile(2))],
      corrupt |-> [valid |-> FALSE, outside |-> <<>>, members |-> <<>>],
      events  |-> [valid |-> TRUE, outside |-> <<>>,
                   members |-> (<<RAW_EVENTS_LOG>> :> SmallFile(1))],
      bare    |-> [valid |-> TRUE, outside |-> <<>>,
                   members |-> (<<"notes.txt">> :> SmallFile(2))],
      long    |-> [valid |-> TRUE, outside |-> <<>>,
                   members |-> (<<ACTIONS_LOG>> :> SmallFile(5)) @@ (<<RAW_EVENTS_LOG>> :> SmallFile(6))],
      escape  |-> [valid |-> TRUE, outside |-> (<<"run-b", ACTIONS_LOG>> :> SmallFile(1)),
                   members |-> (<<ACTIONS_LOG>> :> SmallFile(2))] ]

Urls == {"both", "nested", "tiny", "corrupt", "events", "bare", "long", "escape"}
\* The archive the server holds at a download URL.
Served(url) == Archives[url]

(***************************************************************************)
(* The task registry.                                                      *)
(***************************************************************************)
Terminal(status) == status \in {"completed", "failed"}

\* _update_task_status: under task_lock, replace the task's record.
update_task_status(ts, task_id, status, error) ==
    [x \in DOMAIN ts \cup {task_id} |->
        IF x = task_id
        THEN [task_id |-> task_id, status |-> status, error |-> error]
        ELSE ts[x]]

\* An id generator that can hand out an id it has handed out before.
uuid4_reuse(pool, used) == pool

\* str(uuid.uuid4()): an id that has not appeared before (no collision).
uuid4(pool, used) == pool \ used

\* _get_docker_command
get_docker_command ==
    "docker run -d --name victoria-logs -p 9428:9428 -v $(pwd)/cache/victoria-logs-data:/victoria-logs-data victoriametrics/victoria-logs"

\* A probe that takes any response for a running server, whatever its status.
check_victoria_logs_any_status(outcome) == outcome # "RequestException"

\* _check_victoria_logs: what the probe GET /health can meet, and its answer.
HealthOutcomes == {"200", "503", "RequestException"}
check_victoria_logs(outcome) == outcome = "200"

\* self.session.timeout = REQUEST_TIMEOUT sets an attribute on the Session
\* object; requests does not read it.
session_timeout == Some(REQUEST_TIMEOUT)

\* The timeout requests applies to a call: the timeout argument of the call,
\* None (wait without limit) when the call passes none.  Only the health probe
\* passes one (timeout=5).
request_timeout(call) == IF call = "GET /health" THEN Some(5) ELSE None

\* What a request can meet besides the outcomes its server produces when it
\* answers: when the server may stay silent and the call has no timeout, no
\* response at all (with a timeout the silence ends as requests.Timeout, a
\* RequestException).
Silence(call) ==
    IF call \in env.silent /\ request_timeout(call) = None THEN {"no response"} ELSE {}

\* A network call a synchronous operation made: the request, what it met
\* (a status code or requests.RequestException) and the data it carried.
NetCall(call, outcome, data) == [call |-> call, outcome |-> outcome, data |-> data]

\* What a synchronous call left behind: the operation, its id argument, the
\* exception it raised (None: it returned), the string, the registry record or
\* the result rows it returned, and the network calls it made, in order.
Returned(op, arg, value, record, rows, net) ==
    [op |-> op, arg |-> arg, raised |-> None, value |-> value, record |-> record,
     rows |-> rows, net |-> net]
Raised(op, arg, error, net) ==
    [op |-> op, arg |-> arg, raised |-> Some(error), value |-> "", record |-> None,
     rows |-> <<>>, net |-> net]

\* The worker thread as threading.Thread(target=_ingestion_worker, ...) starts it.
NewWorker(download_url, run_id, task_id) ==
    [ pc |-> "download", download_url |-> download_url, run_id |-> run_id, task_id |-> task_id,
      actions_log |-> None, raw_events_log |-> None,
      log_type |-> "", log_path |-> <<>>, pos |-> 0, batch_lines |-> <<>>, line_count |-> 0,
      final |-> FALSE, attempt |-> 0, waits |-> <<>>, tries |-> 0,
      exc |-> None, stages |-> <<>>, calls |-> 0, posted |-> <<>>, gets |-> 0, scanned |-> <<>> ]

\* The threads ingest_logs starts for one task.
StartThread(starts, download_url, run_id, task_id) ==
    Append(starts, [task_id |-> task_id, download_url |-> download_url, run_id |-> run_id])

(***************************************************************************)
(* ingest_logs(download_url, run_id)                                       *)
(***************************************************************************)
\* The run ids a caller can pass: any text, among them ids it was given back.
RunIdInputs == ValidRunIds \cup InvalidRunIds \cup DOMAIN task_status

\* An ingest_logs that probes the server before it validates the run id.
ingest_logs_probe_first(download_url, run_id) ==
    \E health \in HealthOutcomes :
        LET net == <<NetCall("GET /health", health, <<>>)>> IN
        IF ~check_victoria_logs(health)
        THEN /\ ret' = Returned("ingest_logs", run_id, get_docker_command, None, <<>>, net)
             /\ UNCHANGED <<task_status, thread_starts, wk, cache, seen, batch_size, env, task_lock, callers, heap>>
        ELSE IF ~IsUUID(run_id)
        THEN /\ ret' = Raised("ingest_logs", run_id, "ValueError: Invalid run_id UUID", net)
             /\ UNCHANGED <<task_status, thread_starts, wk, cache, seen, batch_size, env, task_lock, callers, heap>>
        ELSE \E task_id \in uuid4(env.task_ids, DOMAIN task_status \cup {run_id}) :
             /\ task_status' = update_task_status(task_status, task_id, "pending", None)
             /\ thread_starts' = StartThread(thread_starts, download_url, run_id, task_id)
             /\ wk' = (task_id :> NewWorker(download_url, run_id, task_id)) @@ wk
             /\ ret' = Returned("ingest_logs", run_id, task_id, None, <<>>, net)
             /\ UNCHANGED <<cache, seen, batch_size, env, task_lock, callers, heap>>

\* An ingest_logs that starts the thread first and leaves the 'pending' write
\* for later, so that the thread runs on a task that is not registered yet.
ingest_logs_thread_first(download_url, run_id) ==
    IF ~IsUUID(run_id)
    THEN /\ ret' = Raised("ingest_logs", run_id, "ValueError: Invalid run_id UUID", <<>>)
         /\ UNCHANGED <<task_status, thread_starts, wk, cache, seen, batch_size, env, task_lock, callers, heap>>
    ELSE \E health \in HealthOutcomes :
         IF ~check_victoria_logs(health)
         THEN /\ ret' = Returned("ingest_logs", run_id, get_docker_command, None, <<>>,
                                  <<NetCall("GET /health", health, <<>>)>>)
              /\ UNCHANGED <<task_status, thread_starts, wk, cache, seen, batch_size, env, task_lock, callers, heap>>
         ELSE \E task_id \in uuid4(env.task_ids, DOMAIN wk \cup {run_id}) :
              /\ thread_starts' = StartThread(thread_starts, download_url, run_id, task_id)
              /\ wk' = (task_id :> NewWorker(download_url, run_id, task_id)) @@ wk
              /\ ret' = Returned("ingest_logs", run_id, task_id, None, <<>>,
                                  <<NetCall("GET /health", health, <<>>)>>)
              /\ UNCHANGED <<task_status, cache, seen, batch_size, env, task_lock, callers, heap>>

\* An ingest_logs that answers with the task that is already running for the
\* run id, when there is one, and starts nothing.
ingest_logs_dedupes(download_url, run_id) ==
    IF ~IsUUID(run_id)
    THEN /\ ret' = Raised("ingest_logs", run_id, "ValueError: Invalid run_id UUID", <<>>)
         /\ UNCHANGED <<task_status, thread_starts, wk, cache, seen, batch_size, env, task_lock, callers, heap>>
    ELSE \E health \in HealthOutcomes :
         IF ~check_victoria_logs(health)
         THEN /\ ret' = Returned("ingest_logs", run_id, get_docker_command, None, <<>>,
                                  <<NetCall("GET /health", health, <<>>)>>)
              /\ UNCHANGED <<task_status, thread_starts, wk, cache, seen, batch_size, env, task_lock, callers, heap>>
         ELSE IF \E t \in DOMAIN wk : wk[t].run_id = run_id /\ wk[t].pc # "done"
         THEN \E t \in {x \in DOMAIN wk : wk[x].run_id = run_id /\ wk[x].pc # "done"} :
              /\ ret' = Returned("ingest_logs", run_id, t, None, <<>>,
                                  <<NetCall("GET /health", health, <<>>)>>)
              /\ UNCHANGED <<task_status, thread_starts, wk, cache, seen, batch_size, env, task_lock, callers, heap>>
         ELSE \E task_id \in uuid4(env.task_ids, DOMAIN task_status \cup {run_id}) :
              /\ task_status' = update_task_status(task_status, task_id, "pending", None)
              /\ thread_starts' = StartThread(thread_starts, download_url, run_id, task_id)
              /\ wk' = (task_id :> NewWorker(download_url, run_id, task_id)) @@ wk
              /\ ret' = Returned("ingest_logs", run_id, task_id, None, <<>>,
                                  <<NetCall("GET /health", health, <<>>)>>)
              /\ UNCHANGED <<cache, seen, batch_size, env, task_lock, callers, heap>>

ingest_logs(download_url, run_id) ==
    IF ~IsUUID(run_id)
    THEN /\ ret' = Raised("ingest_logs", run_id, "ValueError: Invalid run_id UUID", <<>>)
         /\ UNCHANGED <<task_status, thread_starts, wk, cache, seen, batch_size, env, task_lock, callers, heap>>
    ELSE \E health \in HealthOutcomes :
         IF ~check_victoria_logs(health)
         THEN /\ ret' = Returned("ingest_logs", run_id, get_docker_command, None, <<>>,
                                  <<NetCall("GET /health", health, <<>>)>>)
              /\ UNCHANGED <<task_status, thread_starts, wk, cache, seen, batch_size, env, task_lock, callers, heap>>
         ELSE \E task_id \in uuid4(env.task_ids, DOMAIN task_status \cup {run_id}) :
              /\ task_status' = update_task_status(task_status, task_id, "pending", None)
              /\ thread_starts' = StartThread(thread_starts, download_url, run_id, task_id)
              /\ wk' = (task_id :> NewWorker(download_url, run_id, task_id)) @@ wk
              /\ ret' = Returned("ingest_logs", run_id, task_id, None, <<>>,
                                  <<NetCall("GET /health", health, <<>>)>>)
              /\ UNCHANGED <<cache, seen, batch_size, env, task_lock, callers, heap>>

(***************************************************************************)
(* ingest_logs in two steps, for what happens between thread.start() and   *)
(* the return: the worker thread runs from thread.start() on, while the    *)
(* caller still has logger.info and "return task_id" before it.            *)
(***************************************************************************)
\* A call of ingest_logs that has started its thread and has not returned yet.
Running(op, arg, net) ==
    [op |-> op, arg |-> arg, raised |-> None, value |-> "", record |-> None,
     rows |-> <<>>, net |-> <<>>, running |-> net]

InCall == "running" \in DOMAIN ret

\* ingest_logs up to thread.start(); a call that raises or answers with the
\* docker command returns at once.
ingest_logs_start(download_url, run_id) ==
    /\ ~InCall
    /\ IF ~IsUUID(run_id)
       THEN /\ ret' = Raised("ingest_logs", run_id, "ValueError: Invalid run_id UUID", <<>>)
            /\ UNCHANGED <<task_status, thread_starts, wk, cache, seen, batch_size, env, task_lock, callers, heap>>
       ELSE \E health \in HealthOutcomes :
            IF ~check_victoria_logs(health)
            THEN /\ ret' = Returned("ingest_logs", run_id, get_docker_command, None, <<>>,
                                     <<NetCall("GET /health", health, <<>>)>>)
                 /\ UNCHANGED <<task_status, thread_starts, wk, cache, seen, batch_size, env, task_lock, callers, heap>>
            ELSE \E task_id \in uuid4(env.task_ids, DOMAIN task_status \cup {run_id}) :
                 /\ task_status' = update_task_status(task_status, task_id, "pending", None)
                 /\ thread_starts' = StartThread(thread_starts, download_url, run_id, task_id)
                 /\ wk' = (task_id :> NewWorker(download_url, run_id, task_id)) @@ wk
                 /\ ret' = Running("ingest_logs", run_id, <<NetCall("GET /health", health, <<>>)>>)
                 /\ UNCHANGED <<cache, seen, batch_size, env, task_lock, callers, heap>>

\* An ingest_logs that joins its thread before it returns.
ingest_logs_return_joins ==
    /\ InCall
    /\ wk[thread_starts[Len(thread_starts)].task_id].pc = "done"
    /\ ret' = Returned("ingest_logs", ret.arg, thread_starts[Len(thread_starts)].task_id,
                       None, <<>>, ret.running)
    /\ UNCHANGED <<task_status, thread_starts, wk, cache, seen, batch_size, env, task_lock, callers, heap>>

\* logger.info(...); return task_id
ingest_logs_return ==
    /\ InCall
    /\ ret' = Returned("ingest_logs", ret.arg, thread_starts[Len(thread_starts)].task_id,
                       None, <<>>, ret.running)
    /\ UNCHANGED <<task_status, thread_starts, wk, cache, seen, batch_size, env, task_lock, callers, heap>>

(***************************************************************************)
(* check_ingestion_status(task_id)                                         *)
(***************************************************************************)
TaskIdInputs == TaskIdPool \cup {"non-existent-task-id"}

\* What the polls of one task have returned: nothing until a poll returns a
\* terminal record, then that record, followed by the latest later result.
Observe(s, record) ==
    IF s = <<>>
    THEN IF Terminal(record.status) THEN <<record>> ELSE <<>>
    ELSE <<s[1], record>>

\* A poll that answers an unknown id with a default record and registers it
\* (task_status.setdefault in place of the membership test).
check_ingestion_status_default(task_id) ==
    LET ts == IF task_id \in DOMAIN task_status THEN task_status
              ELSE update_task_status(task_status, task_id, "pending", None)
    IN  /\ task_status' = ts
        /\ ret' = Returned("check_ingestion_status", task_id, "", Some(ts[task_id]), <<>>, <<>>)
        /\ UNCHANGED <<thread_starts, wk, cache, seen, batch_size, env, task_lock, callers, heap>>

check_ingestion_status(task_id) ==
    /\ IF task_id \notin DOMAIN task_status
       THEN /\ ret' = Raised("check_ingestion_status", task_id, "ValueError: Task ID not found", <<>>)
            /\ UNCHANGED seen
       ELSE /\ ret' = Returned("check_ingestion_status", task_id, "", Some(task_status[task_id]),
                                 <<>>, <<>>)
            /\ seen' = [seen EXCEPT ![task_id] = Observe(@, task_status[task_id])]
    /\ UNCHANGED <<task_status, thread_starts, wk, cache, batch_size, env, task_lock, callers, heap>>

(***************************************************************************)
(* _update_task_status(task_id, status, error) called directly, as the     *)
(* tests call it, on ids ingest_logs has not handed out.                   *)
(***************************************************************************)
DirectIds == {"direct-1"}
StatusInputs == {"pending", "completed", "failed"}
ErrorInputs == {None, Some("boom")}

\* ret.record holds the record the call was asked to store.
call_update_task_status(task_id, status, error) ==
    /\ task_status' = update_task_status(task_status, task_id, status, error)
    /\ ret' = Returned("_update_task_status", task_id, "",
                       Some([task_id |-> task_id, status |-> status, error |-> error]), <<>>, <<>>)
    /\ UNCHANGED <<thread_starts, wk, cache, seen, batch_size, env, task_lock, callers, heap>>

(***************************************************************************)
(* The registry at the level of its lock and of its dict objects: threads  *)
(* that call _update_task_status and check_ingestion_status on one task id *)
(* at the same time.  Each "with self.task_lock:" block is an acquire, the *)
(* statements of the block, and a release.  Elsewhere in the model a call  *)
(* of either method is one step.                                           *)
(***************************************************************************)
NoObjects == [objs |-> <<>>, at |-> <<>>]

\* The threads, and the calls they make on the id DirectIds holds.
Writers == {"writer-1", "writer-2"}
Readers == {"reader-1", "reader-2"}

UpdateCall(status, error) ==
    [op |-> "_update_task_status", pc |-> "start", status |-> status, error |-> error,
     raised |-> None, got |-> 0, copied |-> None]
StatusCall ==
    [op |-> "check_ingestion_status", pc |-> "start", status |-> "", error |-> None,
     raised |-> None, got |-> 0, copied |-> None]

\* An acquire that does not wait for the lock to be free.
lock_acquire_no_wait(th) ==
    /\ callers[th].pc = "start"
    /\ task_lock' = Some(th)
    /\ callers' = [callers EXCEPT ![th].pc = "locked"]
    /\ UNCHANGED <<task_status, thread_starts, wk, cache, ret, seen, batch_size, env, heap>>

\* with self.task_lock: the thread waits until the lock is free and takes it.
lock_acquire(th) ==
    /\ callers[th].pc = "start"
    /\ task_lock = None
    /\ task_lock' = Some(th)
    /\ callers' = [callers EXCEPT ![th].pc = "locked"]
    /\ UNCHANGED <<task_status, thread_starts, wk, cache, ret, seen, batch_size, env, heap>>

\* self.task_status[task_id] = {...}: a new dict object takes the place of the
\* one the map referred to.
update_store(th, task_id) ==
    /\ callers[th].pc = "locked"
    /\ callers[th].op = "_update_task_status"
    /\ task_status' = update_task_status(task_status, task_id, callers[th].status, callers[th].error)
    /\ heap' = [objs |-> Append(heap.objs, [task_id |-> task_id, status |-> callers[th].status,
                                            error |-> callers[th].error]),
                at |-> (task_id :> Len(heap.objs) + 1) @@ heap.at]
    /\ callers' = [callers EXCEPT ![th].pc = "release"]
    /\ UNCHANGED <<thread_starts, wk, cache, ret, seen, batch_size, env, task_lock>>

\* if task_id not in self.task_status: raise ...; return self.task_status[task_id].copy()
status_copy(th, task_id) ==
    /\ callers[th].pc = "locked"
    /\ callers[th].op = "check_ingestion_status"
    /\ IF task_id \notin DOMAIN heap.at
       THEN /\ callers' = [callers EXCEPT ![th].pc = "release",
                                          ![th].raised = Some("ValueError: Task ID not found")]
            /\ UNCHANGED heap
       ELSE /\ heap' = [heap EXCEPT !.objs = Append(@, heap.objs[heap.at[task_id]])]
            /\ callers' = [callers EXCEPT ![th].pc = "release",
                                          ![th].got = Len(heap.objs) + 1,
                                          ![th].copied = Some(heap.objs[heap.at[task_id]])]
    /\ UNCHANGED <<task_status, thread_starts, wk, cache, ret, seen, batch_size, env, task_lock>>

\* The end of the with block, reached by a return and by an exception alike.
lock_release(th) ==
    /\ callers[th].pc = "release"
    /\ task_lock' = None
    /\ callers' = [callers EXCEPT ![th].pc = "done"]
    /\ UNCHANGED <<task_status, thread_starts, wk, cache, ret, seen, batch_size, env, heap>>

(***************************************************************************)
(* The query operations.  A query expression is the sequence of the pieces *)
(* the f-strings put together; a timestamp is validated on its characters. *)
(***************************************************************************)
\* The timestamps callers pass, each with its characters.
TimestampChars ==
    ("2025-05-17T04:44:00Z" :>
        <<"2","0","2","5","-","0","5","-","1","7","T","0","4",":","4","4",":","0","0","Z">>) @@
    ("2025-05-17T04:45:00.123" :>
        <<"2","0","2","5","-","0","5","-","1","7","T","0","4",":","4","5",":","0","0",".","1","2","3">>) @@
    ("2025-05-17" :> <<"2","0","2","5","-","0","5","-","1","7">>) @@
    ("" :> <<>>)

TimestampInputs == {None} \cup {Some(x) : x \in DOMAIN TimestampChars}

\* More timestamps: with fraction and Z, with a space for the T, with a
\* newline after the Z, with a dot and no digit after it.
MoreTimestampChars ==
    ("2025-05-17T04:44:00.123Z" :>
        <<"2","0","2","5","-","0","5","-","1","7","T","0","4",":","4","4",":","0","0",".","1","2","3","Z">>) @@
    ("2025-05-17 04:44:00" :>
        <<"2","0","2","5","-","0","5","-","1","7"," ","0","4",":","4","4",":","0","0">>) @@
    ("2025-05-17T04:44:00Z\n" :>
        <<"2","0","2","5","-","0","5","-","1","7","T","0","4",":","4","4",":","0","0","Z","\n">>) @@
    ("2025-05-17T04:44:00." :>
        <<"2","0","2","5","-","0","5","-","1","7","T","0","4",":","4","4",":","0","0",".">>)

\* The characters of a timestamp.
Chars(x) == (TimestampChars @@ MoreTimestampChars)[x]

IsDigit(c) == c \in {"0", "1", "2", "3", "4", "5", "6", "7", "8", "9"}

\* (\.\d+)?Z? matches the whole of r.
MatchesFractionZ(r) ==
    LET body == IF r # <<>> /\ r[Len(r)] = "Z" THEN SubSeq(r, 1, Len(r) - 1) ELSE r
    IN  \/ body = <<>>
        \/ /\ Len(body) >= 2
           /\ body[1] = "."
           /\ \A i \in 2..Len(body) : IsDigit(body[i])

\* re.match(r'^\d{4}-\d{2}-\d{2}T\d{2}:\d{2}:\d{2}(\.\d+)?Z?$', timestamp);
\* $ also matches before one newline that ends the text.
MatchesISO8601(c) ==
    /\ Len(c) >= 19
    /\ \A i \in {1, 2, 3, 4, 6, 7, 9, 10, 12, 13, 15, 16, 18, 19} : IsDigit(c[i])
    /\ c[5] = "-" /\ c[8] = "-" /\ c[11] = "T" /\ c[14] = ":" /\ c[17] = ":"
    /\ LET r == SubSeq(c, 20, Len(c))
       IN  \/ MatchesFractionZ(r)
           \/ r # <<>> /\ r[Len(r)] = "\n" /\ MatchesFractionZ(SubSeq(r, 1, Len(r) - 1))

\* "if start_time:" holds: the argument is neither None nor the empty string.
Truthy(x) == x # None /\ x[1] # ""

\* _validate_iso8601_timestamp raises for this argument.
validate_iso8601_timestamp(x) == ~MatchesISO8601(Chars(x[1]))

\* A time clause that is built only when both bounds are given.
TimeClause_closed_only(start_time, end_time) ==
    IF Truthy(start_time) /\ Truthy(end_time)
    THEN <<" _time:[", start_time[1], ",", end_time[1], "]">>
    ELSE <<>>

\* The time clause appended to a query expression.
TimeClause(start_time, end_time) ==
    IF Truthy(start_time) /\ Truthy(end_time)
    THEN <<" _time:[", start_time[1], ",", end_time[1], "]">>
    ELSE IF Truthy(start_time) THEN <<" _time:[", start_time[1], ",]">>
    ELSE IF Truthy(end_time) THEN <<" _time:[,", end_time[1], "]">>
    ELSE <<>>

\* f'{{stream="<stream>", run_id="{run_id}"}}'
StreamFilter(stream, run_id) == <<"{stream=\"", stream, "\", run_id=\"", run_id, "\"}">>

\* What the query endpoint can answer: a transport failure or an error status,
\* or a body of lines.
QueryResponses ==
    { [outcome |-> "RequestException", body |-> <<>>],
      [outcome |-> "500", body |-> <<>>],
      [outcome |-> "200", body |-> <<>>],
      [outcome |-> "200", body |-> <<Blank>>],
      [outcome |-> "200", body |-> <<Malformed, Blank>>],
      [outcome |-> "200", body |-> <<Obj([id |-> 1]), DeeplyNested, Obj([id |-> 2])>>],
      [outcome |-> "200", body |-> <<Obj([id |-> 1]), Blank, Malformed, Obj([id |-> 2])>>] }

RECURSIVE ParseJSONL(_)
\* The results _execute_query collects from the lines of a body.
ParseJSONL(body) ==
    IF body = <<>> THEN <<>>
    ELSE LET line == Head(body)
         IN  IF line.kind \in {"blank", "malformed"} THEN ParseJSONL(Tail(body))
             ELSE <<line.obj>> \o ParseJSONL(Tail(body))

\* json.loads(line) raises an exception that is not a JSONDecodeError.
ParseRaises(body) == \E i \in 1..Len(body) : body[i].kind \in {"deep", "huge"}

\* An _execute_query that answers a failed POST with an empty result.
execute_query_swallows(op, arg, query, response) ==
    LET net == <<NetCall("POST /select/logsql/query", response.outcome, query)
                    @@ [body |-> response.body]>>
    IN  IF response.outcome # "200" \/ ParseRaises(response.body)
        THEN Returned(op, arg, "", None, <<>>, net)
        ELSE Returned(op, arg, "", None, ParseJSONL(response.body), net)

\* _execute_query(query) called by operation op: what the caller gets.  The
\* network call is recorded with the body of the response it met.  An
\* exception in the parsing other than the JSONDecodeError of one line is
\* caught by the outer "except Exception", which returns the empty list.
execute_query(op, arg, query, response) ==
    LET net == <<NetCall("POST /select/logsql/query", response.outcome, query)
                    @@ [body |-> response.body]>>
    IN  IF response.outcome # "200"
        THEN Raised(op, arg, "VictoriaLogsQueryError: Query execution failed", net)
        ELSE IF ParseRaises(response.body)
        THEN Returned(op, arg, "", None, <<>>, net)
        ELSE Returned(op, arg, "", None, ParseJSONL(response.body), net)

QueryFrame == UNCHANGED <<task_status, thread_starts, wk, cache, seen, batch_size, env, task_lock, callers, heap>>

query_actions_log(run_id, start_time, end_time) ==
    /\ QueryFrame
    /\ IF ~IsUUID(run_id)
       THEN ret' = Raised("query_actions_log", run_id, "ValueError: Invalid run_id UUID", <<>>)
       ELSE IF \/ Truthy(start_time) /\ validate_iso8601_timestamp(start_time)
               \/ Truthy(end_time) /\ validate_iso8601_timestamp(end_time)
       THEN ret' = Raised("query_actions_log", run_id,
                          "ValueError: Invalid ISO 8601 timestamp format", <<>>)
       ELSE \E response \in QueryResponses :
                ret' = execute_query("query_actions_log", run_id,
                                     StreamFilter("action", run_id) \o TimeClause(start_time, end_time),
                                     response)

\* A lookup that puts the limit before the time clause.
query_raw_events_log_limit_first(run_id, event_id, start_time, end_time) ==
    /\ QueryFrame
    /\ IF ~IsUUID(run_id) \/ ~IsUUID(event_id)
       THEN ret' = Raised("query_raw_events_log", run_id, "ValueError: Invalid UUID", <<>>)
       ELSE IF \/ Truthy(start_time) /\ validate_iso8601_timestamp(start_time)
               \/ Truthy(end_time) /\ validate_iso8601_timestamp(end_time)
       THEN ret' = Raised("query_raw_events_log", run_id,
                          "ValueError: Invalid ISO 8601 timestamp format", <<>>)
       ELSE \E response \in QueryResponses :
                LET r == execute_query("query_raw_events_log", run_id,
                                       StreamFilter("events", run_id)
                                           \o <<" event_id:\"", event_id, "\"">>
                                           \o <<" | limit 1">>
                                           \o TimeClause(start_time, end_time),
                                       response)
                IN  ret' = IF r.raised # None THEN r
                           ELSE IF r.rows # <<>> THEN [r EXCEPT !.rows = <<r.rows[1]>>]
                           ELSE [r EXCEPT !.value = "None"]

\* A lookup that returns the last result (results[-1] for results[0]).
query_raw_events_log_last(run_id, event_id, start_time, end_time) ==
    /\ QueryFrame
    /\ IF ~IsUUID(run_id) \/ ~IsUUID(event_id)
       THEN ret' = Raised("query_raw_events_log", run_id, "ValueError: Invalid UUID", <<>>)
       ELSE IF \/ Truthy(start_time) /\ validate_iso8601_timestamp(start_time)
               \/ Truthy(end_time) /\ validate_iso8601_timestamp(end_time)
       THEN ret' = Raised("query_raw_events_log", run_id,
                          "ValueError: Invalid ISO 8601 timestamp format", <<>>)
       ELSE \E response \in QueryResponses :
                LET r == execute_query("query_raw_events_log", run_id,
                                       StreamFilter("events", run_id)
                                           \o <<" event_id:\"", event_id, "\"">>
                                           \o TimeClause(start_time, end_time)
                                           \o <<" | limit 1">>,
                                       response)
                IN  ret' = IF r.raised # None THEN r
                           ELSE IF r.rows # <<>> THEN [r EXCEPT !.rows = <<r.rows[Len(r.rows)]>>]
                           ELSE [r EXCEPT !.value = "None"]

query_raw_events_log(run_id, event_id, start_time, end_time) ==
    /\ QueryFrame
    /\ IF ~IsUUID(run_id) \/ ~IsUUID(event_id)
       THEN ret' = Raised("query_raw_events_log", run_id, "ValueError: Invalid UUID", <<>>)
       ELSE IF \/ Truthy(start_time) /\ validate_iso8601_timestamp(start_time)
               \/ Truthy(end_time) /\ validate_iso8601_timestamp(end_time)
       THEN ret' = Raised("query_raw_events_log", run_id,
                          "ValueError: Invalid ISO 8601 timestamp format", <<>>)
       ELSE \E response \in QueryResponses :
                LET r == execute_query("query_raw_events_log", run_id,
                                       StreamFilter("events", run_id)
                                           \o <<" event_id:\"", event_id, "\"">>
                                           \o TimeClause(start_time, end_time)
                                           \o <<" | limit 1">>,
                                       response)
                IN  ret' = IF r.raised # None THEN r
                           ELSE IF r.rows # <<>> THEN [r EXCEPT !.rows = <<r.rows[1]>>]
                           ELSE [r EXCEPT !.value = "None"]

\* f'{limit}' for the limits callers pass.
IntStr(n) == ((0 :> "0") @@ (100 :> "100") @@ (-1 :> "-1"))[n]

\* A query by stream that checks the stream type before the run id.
query_logs_by_stream_stream_first(run_id, stream_type, start_time, end_time, limit) ==
    /\ QueryFrame
    /\ IF stream_type \notin {"action", "events"}
       THEN ret' = Raised("query_logs_by_stream", run_id, "ValueError: Invalid stream_type", <<>>)
       ELSE IF ~IsUUID(run_id)
       THEN ret' = Raised("query_logs_by_stream", run_id, "ValueError: Invalid run_id UUID", <<>>)
       ELSE IF \/ Truthy(start_time) /\ validate_iso8601_timestamp(start_time)
               \/ Truthy(end_time) /\ validate_iso8601_timestamp(end_time)
       THEN ret' = Raised("query_logs_by_stream", run_id,
                          "ValueError: Invalid ISO 8601 timestamp format", <<>>)
       ELSE \E response \in QueryResponses :
                ret' = execute_query("query_logs_by_stream", run_id,
                                     StreamFilter(stream_type, run_id)
                                         \o TimeClause(start_time, end_time)
                                         \o (IF limit # None /\ limit[1] # 0
                                             THEN <<" | limit ", IntStr(limit[1])>> ELSE <<>>),
                                     response)

query_logs_by_stream(run_id, stream_type, start_time, end_time, limit) ==
    /\ QueryFrame
    /\ IF ~IsUUID(run_id)
       THEN ret' = Raised("query_logs_by_stream", run_id, "ValueError: Invalid run_id UUID", <<>>)
       ELSE IF stream_type \notin {"action", "events"}
       THEN ret' = Raised("query_logs_by_stream", run_id, "ValueError: Invalid stream_type", <<>>)
       ELSE IF \/ Truthy(start_time) /\ validate_iso8601_timestamp(start_time)
               \/ Truthy(end_time) /\ validate_iso8601_timestamp(end_time)
       THEN ret' = Raised("query_logs_by_stream", run_id,
                          "ValueError: Invalid ISO 8601 timestamp format", <<>>)
       ELSE \E response \in QueryResponses :
                ret' = execute_query("query_logs_by_stream", run_id,
                                     StreamFilter(stream_type, run_id)
                                         \o TimeClause(start_time, end_time)
                                         \o (IF limit # None /\ limit[1] # 0
                                             THEN <<" | limit ", IntStr(limit[1])>> ELSE <<>>),
                                     response)

(***************************************************************************)
(* The background worker, _ingestion_worker(download_url, run_id, task_id),*)
(* one step at a time.  w is the worker's record, t its task id.           *)
(***************************************************************************)
RunDirs == ValidRunIds \cup TaskIdPool

\* An exception leaves the try block of _ingestion_worker with this message.
Raise(w, msg) == [w EXCEPT !.pc = "except", !.exc = Some(msg)]

\* An enrichment that leaves a run_id or stream field the line already has
\* (setdefault in place of the assignment).
Enrich_keeps_existing(o, run_id, stream_name) ==
    [k \in DOMAIN o \cup {"run_id", "stream"} |->
        IF k \in DOMAIN o THEN o[k]
        ELSE IF k = "run_id" THEN run_id
        ELSE stream_name]

\* log_entry['run_id'] = run_id; log_entry['stream'] = stream_name
Enrich(o, run_id, stream_name) ==
    [k \in DOMAIN o \cup {"run_id", "stream"} |->
        IF k = "run_id" THEN run_id
        ELSE IF k = "stream" THEN stream_name
        ELSE o[k]]

\* The stream name and the ingestion parameters of a log type.
StreamName(log_type) == IF log_type = "actions" THEN "action" ELSE "events"
Params(log_type) ==
    IF log_type = "actions"
    THEN [stream_fields |-> "stream,run_id", time_field |-> "datetime", msg_field |-> "action"]
    ELSE [stream_fields |-> "stream,run_id", time_field |-> "event_timestamp", msg_field |-> "line"]

\* A download that tries the GET once more after a failure.
download_archive_retries(t) ==
    /\ wk[t].pc = "download"
    /\ \E outcome \in {"ok", "RequestException", "OSError"} :
        CASE outcome = "ok" ->
                /\ wk' = [wk EXCEPT ![t].pc = "write", ![t].gets = @ + 1]
                /\ cache' = [cache EXCEPT ![wk[t].run_id].archive = "partial"]
          [] outcome = "RequestException" ->
                /\ wk' = [wk EXCEPT ![t] = IF @.gets = 0 THEN [@ EXCEPT !.gets = @ + 1]
                                           ELSE Raise([@ EXCEPT !.gets = @ + 1],
                                                      "Failed to download archive")]
                /\ UNCHANGED cache
          [] outcome = "OSError" ->
                /\ wk' = [wk EXCEPT ![t] = Raise(@, "OSError: cache directory")]
                /\ UNCHANGED cache
    /\ UNCHANGED <<task_status, thread_starts, ret, seen, batch_size, env, task_lock, callers, heap>>

\* _download_archive up to open(archive_path, 'wb'): mkdir, GET, raise_for_status.
download_archive(t) ==
    /\ wk[t].pc = "download"
    /\ \E outcome \in {"ok", "RequestException", "OSError"} \cup Silence("GET archive") :
        CASE outcome = "ok" ->
                /\ wk' = [wk EXCEPT ![t].pc = "write", ![t].gets = @ + 1]
                /\ cache' = [cache EXCEPT ![wk[t].run_id].archive = "partial"]
          [] outcome = "no response" ->
                /\ wk' = [wk EXCEPT ![t].pc = "blocked", ![t].gets = @ + 1]
                /\ UNCHANGED cache
          [] outcome = "RequestException" ->
                /\ wk' = [wk EXCEPT ![t] = Raise([@ EXCEPT !.gets = @ + 1], "Failed to download archive")]
                /\ UNCHANGED cache
          [] outcome = "OSError" ->
                /\ wk' = [wk EXCEPT ![t] = Raise(@, "OSError: cache directory")]
                /\ UNCHANGED cache
    /\ UNCHANGED <<task_status, thread_starts, ret, seen, batch_size, env, task_lock, callers, heap>>

\* _download_archive, the chunks of the response body written to the file.
write_archive(t) ==
    /\ wk[t].pc = "write"
    /\ \E outcome \in {"ok", "RequestException"} \cup Silence("GET archive") :
        CASE outcome = "ok" ->
                /\ wk' = [wk EXCEPT ![t].pc = "unpack", ![t].stages = Append(@, "download")]
                /\ cache' = [cache EXCEPT ![wk[t].run_id].archive = wk[t].download_url]
          [] outcome = "RequestException" ->
                /\ wk' = [wk EXCEPT ![t] = Raise(@, "Failed to download archive")]
                /\ UNCHANGED cache
          [] outcome = "no response" ->
                /\ wk' = [wk EXCEPT ![t].pc = "blocked"]
                /\ UNCHANGED cache
    /\ UNCHANGED <<task_status, thread_starts, ret, seen, batch_size, env, task_lock, callers, heap>>

\* tar.extractall(path=extract_dir) with no filter argument: what the tarfile
\* module does with a member whose name leads out of extract_dir depends on
\* its default filter, which differs between Python versions.
ExtractionFilters == {"fully_trusted", "data"}

\* The files under CACHE_DIR/<d> after the members of archive a were extracted
\* into CACHE_DIR/<run_id> with nothing held back.
Extracted(c, run_id, a) ==
    [d \in DOMAIN c |->
        LET inside == IF d = run_id THEN a.members ELSE <<>>
            led == {p \in DOMAIN a.outside : p[1] = d}
            out == [q \in {Tail(p) : p \in led} |-> a.outside[<<d>> \o q]]
        IN  [c[d] EXCEPT !.tree = out @@ inside @@ @]]

\* _unpack_archive: decompress what lies at the archive path and extract it
\* over the run's directory.
unpack_archive(t) ==
    /\ wk[t].pc = "unpack"
    /\ LET a == cache[wk[t].run_id].archive IN
        IF a \in Urls /\ Served(a).valid
        THEN \E filter \in ExtractionFilters :
                IF filter = "data" /\ \E p \in DOMAIN Served(a).outside : p[1] # wk[t].run_id
                THEN /\ wk' = [wk EXCEPT ![t] = Raise(@, "Failed to unpack archive")]
                     /\ UNCHANGED cache
                ELSE /\ wk' = [wk EXCEPT ![t].pc = "find", ![t].stages = Append(@, "unpack")]
                     /\ cache' = Extracted(cache, wk[t].run_id, Served(a))
        ELSE /\ wk' = [wk EXCEPT ![t] = Raise(@, "Failed to unpack archive")]
             /\ UNCHANGED cache
    /\ UNCHANGED <<task_status, thread_starts, ret, seen, batch_size, env, task_lock, callers, heap>>

\* The orders in which extract_dir.iterdir() can yield the subdirectories.
Orders(S) == {o \in [1..Cardinality(S) -> S] : \A i, j \in 1..Cardinality(S) : o[i] = o[j] => i = j}

RECURSIVE ScanSubdirs_last_wins(_, _, _, _)
\* A scan that takes a copy wherever it sees one: a later copy takes the place
\* of the one found before, the one of the root included.
ScanSubdirs_last_wins(tree, order, a, r) ==
    IF order = <<>> THEN [actions_log |-> a, raw_events_log |-> r, scanned |-> <<>>]
    ELSE LET d == Head(order)
             a1 == IF <<d, ACTIONS_LOG>> \in DOMAIN tree THEN Some(<<d, ACTIONS_LOG>>) ELSE a
             r1 == IF <<d, RAW_EVENTS_LOG>> \in DOMAIN tree THEN Some(<<d, RAW_EVENTS_LOG>>) ELSE r
             rest == ScanSubdirs_last_wins(tree, Tail(order), a1, r1)
         IN  [rest EXCEPT !.scanned = <<d>> \o @]

RECURSIVE ScanSubdirs(_, _, _, _)
\* for subdir in extract_dir.iterdir(): if subdir.is_dir(): ...  The result
\* names the two paths and, in "scanned", the subdirectories the loop looked
\* into, in the order it did.
ScanSubdirs(tree, order, a, r) ==
    IF order = <<>> THEN [actions_log |-> a, raw_events_log |-> r, scanned |-> <<>>]
    ELSE LET d == Head(order)
             a1 == IF a = None /\ <<d, ACTIONS_LOG>> \in DOMAIN tree THEN Some(<<d, ACTIONS_LOG>>) ELSE a
             r1 == IF r = None /\ <<d, RAW_EVENTS_LOG>> \in DOMAIN tree THEN Some(<<d, RAW_EVENTS_LOG>>) ELSE r
         IN  IF a1 # None /\ r1 # None
             THEN [actions_log |-> a1, raw_events_log |-> r1, scanned |-> <<d>>]
             ELSE LET rest == ScanSubdirs(tree, Tail(order), a1, r1)
                  IN  [rest EXCEPT !.scanned = <<d>> \o @]

\* _find_log_files: the pairs (actions_log, raw_events_log) it can return.
find_log_files(tree) ==
    LET a0 == IF <<ACTIONS_LOG>> \in DOMAIN tree THEN Some(<<ACTIONS_LOG>>) ELSE None
        r0 == IF <<RAW_EVENTS_LOG>> \in DOMAIN tree THEN Some(<<RAW_EVENTS_LOG>>) ELSE None
        subdirs == {p[1] : p \in {q \in DOMAIN tree : Len(q) >= 2}}
    IN  IF a0 # None /\ r0 # None
        THEN {[actions_log |-> a0, raw_events_log |-> r0, scanned |-> <<>>]}
        ELSE {ScanSubdirs(tree, o, a0, r0) : o \in Orders(subdirs)}

find_files(t) ==
    /\ wk[t].pc = "find"
    /\ \E outcome \in {"ok", "OSError"} :
        IF outcome = "ok"
        THEN \E found \in find_log_files(cache[wk[t].run_id].tree) :
                wk' = [wk EXCEPT ![t].pc = "actions", ![t].stages = Append(@, "find"),
                                 ![t].actions_log = found.actions_log,
                                 ![t].raw_events_log = found.raw_events_log,
                                 ![t].scanned = found.scanned]
        ELSE wk' = [wk EXCEPT ![t] = Raise(@, "OSError: extraction directory")]
    /\ UNCHANGED <<task_status, thread_starts, cache, ret, seen, batch_size, env, task_lock, callers, heap>>

\* _ingest_log_file up to the loop: the file exists, it is opened, the batch is empty.
OpenLog(w, tree, log_type, log_path, next_pc) ==
    IF log_path \notin DOMAIN tree
    THEN [w EXCEPT !.pc = next_pc]
    ELSE [w EXCEPT !.pc = "line", !.log_type = log_type, !.log_path = log_path,
                   !.pos = 0, !.batch_lines = <<>>, !.line_count = 0]

\* _ingest_log_file returned: the worker goes on after the call.
FileDone(w) ==
    [w EXCEPT !.pc = IF w.log_type = "actions" THEN "raw_events" ELSE "complete",
              !.stages = Append(@, w.log_type)]

\* if actions_log: self._ingest_log_file(actions_log, 'actions', run_id)
ingest_actions(t) ==
    /\ wk[t].pc = "actions"
    /\ wk' = [wk EXCEPT ![t] =
                IF @.actions_log # None
                THEN OpenLog(@, cache[@.run_id].tree, "actions", @.actions_log[1], "raw_events")
                ELSE [@ EXCEPT !.pc = "raw_events"]]
    /\ UNCHANGED <<task_status, thread_starts, cache, ret, seen, batch_size, env, task_lock, callers, heap>>

\* A worker for which a missing raw_events.log is an error.
ingest_raw_events_required(t) ==
    /\ wk[t].pc = "raw_events"
    /\ wk' = [wk EXCEPT ![t] =
                IF @.raw_events_log # None
                THEN OpenLog(@, cache[@.run_id].tree, "raw_events", @.raw_events_log[1], "complete")
                ELSE Raise(@, "raw_events.log not found")]
    /\ UNCHANGED <<task_status, thread_starts, cache, ret, seen, batch_size, env, task_lock, callers, heap>>

\* if raw_events_log: self._ingest_log_file(raw_events_log, 'raw_events', run_id)
ingest_raw_events(t) ==
    /\ wk[t].pc = "raw_events"
    /\ wk' = [wk EXCEPT ![t] =
                IF @.raw_events_log # None
                THEN OpenLog(@, cache[@.run_id].tree, "raw_events", @.raw_events_log[1], "complete")
                ELSE [@ EXCEPT !.pc = "complete"]]
    /\ UNCHANGED <<task_status, thread_starts, cache, ret, seen, batch_size, env, task_lock, callers, heap>>

\* A send that is started and not waited for: the loop goes on at once.
CallSendBatch_no_wait(w, final) ==
    IF final THEN FileDone([w EXCEPT !.calls = @ + 1, !.batch_lines = <<>>])
    ELSE [w EXCEPT !.pc = "line", !.calls = @ + 1, !.batch_lines = <<>>, !.line_count = @ + 1]

\* A call of _send_batch(batch_lines, ...) begins: attempt 0 comes next.
CallSendBatch(w, final) ==
    [w EXCEPT !.pc = "send", !.final = final, !.attempt = 0, !.tries = 0, !.waits = <<>>,
              !.calls = @ + 1]

\* A loop that flushes when the batch has grown past the batch size (> for >=).
IngestLine_flush_late(w, f, size) ==
    IF w.pos >= NumLines(f)
    THEN IF w.batch_lines # <<>> THEN CallSendBatch(w, TRUE) ELSE FileDone(w)
    ELSE LET line == LineAt(f, w.pos + 1)
             r == [w EXCEPT !.pos = @ + 1]
         IN  CASE line.kind = "blank" -> r
               [] line.kind = "malformed" -> r
               [] line.kind = "nonobject" ->
                     Raise(r, "TypeError: object does not support item assignment")
               [] line.kind = "deep" ->
                     Raise(r, "RecursionError: maximum recursion depth exceeded")
               [] line.kind = "huge" -> Raise(r, "")
               [] line.kind = "object" ->
                     LET b == Append(w.batch_lines, Enrich(line.obj, w.run_id, StreamName(w.log_type)))
                     IN  IF Len(b) > size
                         THEN CallSendBatch([r EXCEPT !.batch_lines = b], FALSE)
                         ELSE [r EXCEPT !.batch_lines = b, !.line_count = @ + 1]

\* A loop that stops reading at the first malformed line (break for continue).
IngestLine_break_on_malformed(w, f, size) ==
    IF w.pos >= NumLines(f)
    THEN IF w.batch_lines # <<>> THEN CallSendBatch(w, TRUE) ELSE FileDone(w)
    ELSE LET line == LineAt(f, w.pos + 1)
             r == [w EXCEPT !.pos = @ + 1]
         IN  CASE line.kind = "blank" -> r
               [] line.kind = "malformed" -> [w EXCEPT !.pos = NumLines(f)]
               [] line.kind = "nonobject" ->
                     Raise(r, "TypeError: object does not support item assignment")
               [] line.kind = "deep" ->
                     Raise(r, "RecursionError: maximum recursion depth exceeded")
               [] line.kind = "huge" -> Raise(r, "")
               [] line.kind = "object" ->
                     LET b == Append(w.batch_lines, Enrich(line.obj, w.run_id, StreamName(w.log_type)))
                     IN  IF Len(b) >= size
                         THEN CallSendBatch([r EXCEPT !.batch_lines = b], FALSE)
                         ELSE [r EXCEPT !.batch_lines = b, !.line_count = @ + 1]

\* One round of "for line in f", or the end of the file and what follows the loop.
IngestLine(w, f, size) ==
    IF w.pos >= NumLines(f)
    THEN IF w.batch_lines # <<>> THEN CallSendBatch(w, TRUE) ELSE FileDone(w)
    ELSE LET line == LineAt(f, w.pos + 1)
             r == [w EXCEPT !.pos = @ + 1]
         IN  CASE line.kind = "blank" -> r
               [] line.kind = "malformed" -> r
               [] line.kind = "nonobject" ->
                     Raise(r, "TypeError: object does not support item assignment")
               [] line.kind = "deep" ->
                     Raise(r, "RecursionError: maximum recursion depth exceeded")
               [] line.kind = "huge" -> Raise(r, "")
               [] line.kind = "object" ->
                     LET b == Append(w.batch_lines, Enrich(line.obj, w.run_id, StreamName(w.log_type)))
                     IN  IF Len(b) >= size
                         THEN CallSendBatch([r EXCEPT !.batch_lines = b], FALSE)
                         ELSE [r EXCEPT !.batch_lines = b, !.line_count = @ + 1]

ingest_line(t) ==
    /\ wk[t].pc = "line"
    /\ wk' = [wk EXCEPT ![t] = IngestLine(@, cache[@.run_id].tree[@.log_path], batch_size)]
    /\ UNCHANGED <<task_status, thread_starts, cache, ret, seen, batch_size, env, task_lock, callers, heap>>

\* _send_batch returned: the batch was acknowledged.
BatchSent(w) ==
    LET p == [w EXCEPT !.posted = Append(@, [log_type |-> w.log_type, params |-> Params(w.log_type),
                                             lines |-> w.batch_lines]),
                       !.tries = @ + 1]
    IN  IF w.final THEN FileDone([p EXCEPT !.batch_lines = <<>>])
        ELSE [p EXCEPT !.pc = "line", !.batch_lines = <<>>, !.line_count = @ + 1]

\* A _send_batch that retries once more than MAX_RETRIES allows (< MAX_RETRIES
\* for < MAX_RETRIES - 1).
AttemptFailed_one_more(w) ==
    IF w.attempt < MAX_RETRIES
    THEN [w EXCEPT !.pc = "sleep", !.tries = @ + 1]
    ELSE Raise([w EXCEPT !.tries = @ + 1], "Failed to ingest batch after 3 attempts")

\* A _send_batch that gives up after the last attempt without raising.
AttemptFailed_gives_up(w) ==
    IF w.attempt < MAX_RETRIES - 1
    THEN [w EXCEPT !.pc = "sleep", !.tries = @ + 1]
    ELSE IF w.final THEN FileDone([w EXCEPT !.batch_lines = <<>>, !.tries = @ + 1])
    ELSE [w EXCEPT !.pc = "line", !.batch_lines = <<>>, !.line_count = @ + 1, !.tries = @ + 1]

\* The POST of one attempt failed (requests.RequestException).
AttemptFailed(w) ==
    IF w.attempt < MAX_RETRIES - 1
    THEN [w EXCEPT !.pc = "sleep", !.tries = @ + 1]
    ELSE Raise([w EXCEPT !.tries = @ + 1], "Failed to ingest batch after 3 attempts")

\* A _send_batch that takes the registry lock for its retry loop: the lock is
\* held while the call sleeps between two attempts.
send_batch_holds_lock(t) ==
    /\ wk[t].pc = "send"
    /\ task_lock \in {None, Some(t)}
    /\ \E outcome \in {"ok"} \cup (IF env.posts_fail THEN {"RequestException"} ELSE {})
                         \cup Silence("POST /insert/jsonline") :
        wk' = [wk EXCEPT ![t] = CASE outcome = "ok" -> BatchSent(@)
                                  [] outcome = "RequestException" -> AttemptFailed(@)
                                  [] outcome = "no response" ->
                                        [@ EXCEPT !.pc = "blocked", !.tries = @ + 1]]
    /\ task_lock' = IF wk'[t].pc = "sleep" THEN Some(t) ELSE None
    /\ UNCHANGED <<task_status, thread_starts, cache, ret, seen, batch_size, env, callers, heap>>

\* One attempt of _send_batch: the POST and raise_for_status.  A worker whose
\* request is never answered stays in the call ("blocked").
send_batch(t) ==
    /\ wk[t].pc = "send"
    /\ \E outcome \in {"ok"} \cup (IF env.posts_fail THEN {"RequestException"} ELSE {})
                         \cup Silence("POST /insert/jsonline") :
        wk' = [wk EXCEPT ![t] = CASE outcome = "ok" -> BatchSent(@)
                                  [] outcome = "RequestException" -> AttemptFailed(@)
                                  [] outcome = "no response" ->
                                        [@ EXCEPT !.pc = "blocked", !.tries = @ + 1]]
    /\ UNCHANGED <<task_status, thread_starts, cache, ret, seen, batch_size, env, task_lock, callers, heap>>

\* A backoff that grows linearly (RETRY_BACKOFF_FACTOR * (attempt + 1)).
backoff_sleep_linear(t) ==
    /\ wk[t].pc = "sleep"
    /\ wk' = [wk EXCEPT ![t].pc = "send",
                        ![t].waits = Append(@, RETRY_BACKOFF_FACTOR * (wk[t].attempt + 1)),
                        ![t].attempt = @ + 1]
    /\ UNCHANGED <<task_status, thread_starts, cache, ret, seen, batch_size, env, task_lock, callers, heap>>

\* wait_time = RETRY_BACKOFF_FACTOR ** attempt; time.sleep(wait_time)
backoff_sleep(t) ==
    /\ wk[t].pc = "sleep"
    /\ wk' = [wk EXCEPT ![t].pc = "send", ![t].waits = Append(@, RETRY_BACKOFF_FACTOR ^ wk[t].attempt),
                        ![t].attempt = @ + 1]
    /\ UNCHANGED <<task_status, thread_starts, cache, ret, seen, batch_size, env, task_lock, callers, heap>>

\* A worker in which something after the 'completed' write still raises inside
\* the try block.
worker_complete_late_failure(t) ==
    /\ wk[t].pc = "complete"
    /\ task_status' = update_task_status(task_status, t, "completed", None)
    /\ wk' = [wk EXCEPT ![t] = Raise(@, "late failure")]
    /\ UNCHANGED <<thread_starts, cache, ret, seen, batch_size, env, task_lock, callers, heap>>

\* self._update_task_status(task_id, 'completed')
worker_complete(t) ==
    /\ wk[t].pc = "complete"
    /\ task_status' = update_task_status(task_status, t, "completed", None)
    /\ wk' = [wk EXCEPT ![t].pc = "done"]
    /\ UNCHANGED <<thread_starts, cache, ret, seen, batch_size, env, task_lock, callers, heap>>

\* A worker whose except clause takes back what the task had ingested before
\* it records the failure.
worker_except_rolls_back(t) ==
    /\ wk[t].pc = "except"
    /\ task_status' = update_task_status(task_status, t, "failed", wk[t].exc)
    /\ wk' = [wk EXCEPT ![t].pc = "done", ![t].posted = <<>>]
    /\ UNCHANGED <<thread_starts, cache, ret, seen, batch_size, env, task_lock, callers, heap>>

\* A worker whose except clause logs the failure and records nothing.
worker_except_logs_only(t) ==
    /\ wk[t].pc = "except"
    /\ wk' = [wk EXCEPT ![t].pc = "done"]
    /\ UNCHANGED <<task_status, thread_starts, cache, ret, seen, batch_size, env, task_lock, callers, heap>>

\* A worker that records the failure without its message.
worker_except_drops_message(t) ==
    /\ wk[t].pc = "except"
    /\ task_status' = update_task_status(task_status, t, "failed", None)
    /\ wk' = [wk EXCEPT ![t].pc = "done"]
    /\ UNCHANGED <<thread_starts, cache, ret, seen, batch_size, env, task_lock, callers, heap>>

\* A worker whose 'completed' write sits after the try statement, so that it
\* also runs when the except clause has written 'failed'.
worker_except_falls_through(t) ==
    /\ wk[t].pc = "except"
    /\ task_status' = update_task_status(task_status, t, "failed", wk[t].exc)
    /\ wk' = [wk EXCEPT ![t].pc = "complete"]
    /\ UNCHANGED <<thread_starts, cache, ret, seen, batch_size, env, task_lock, callers, heap>>

\* except Exception as e: self._update_task_status(task_id, 'failed', str(e))
worker_except(t) ==
    /\ wk[t].pc = "except"
    /\ task_status' = update_task_status(task_status, t, "failed", wk[t].exc)
    /\ wk' = [wk EXCEPT ![t].pc = "done"]
    /\ UNCHANGED <<thread_starts, cache, ret, seen, batch_size, env, task_lock, callers, heap>>

(***************************************************************************)
(* The handler with its callers and its worker threads.                    *)
(***************************************************************************)
NoCall == [op |-> "none", arg |-> "", raised |-> None, value |-> "", record |-> None,
           rows |-> <<>>, net |-> <<>>]

\* The handler as constructed, in the surroundings e.
InitWorld(e) ==
    /\ task_status = <<>>
    /\ thread_starts = <<>>
    /\ wk = <<>>
    /\ cache = [r \in RunDirs |-> [archive |-> "absent", tree |-> <<>>]]
    /\ ret = NoCall
    /\ seen = [t \in TaskIdPool |-> <<>>]
    /\ batch_size = SmallBatch
    /\ env = e
    /\ task_lock = None
    /\ callers = <<>>
    /\ heap = NoObjects

\* Two concurrent tasks over a one-line archive, and one task over every archive.
TwoTasks == [urls |-> {"tiny"}, task_ids |-> TaskIdPool, posts_fail |-> FALSE, silent |-> {}]
OneTask == [urls |-> Urls, task_ids |-> {"task-1"}, posts_fail |-> TRUE, silent |-> {}]

Init == \E e \in {TwoTasks, OneTask} : InitWorld(e)

Next ==
    \/ \E download_url \in env.urls, run_id \in RunIdInputs : ingest_logs(download_url, run_id)
    \/ \E task_id \in TaskIdInputs : check_ingestion_status(task_id)
    \/ \E t \in DOMAIN wk : download_archive(t)
    \/ \E t \in DOMAIN wk : write_archive(t)
    \/ \E t \in DOMAIN wk : unpack_archive(t)
    \/ \E t \in DOMAIN wk : find_files(t)
    \/ \E t \in DOMAIN wk : ingest_actions(t)
    \/ \E t \in DOMAIN wk : ingest_line(t)
    \/ \E t \in DOMAIN wk : send_batch(t)
    \/ \E t \in DOMAIN wk : backoff_sleep(t)
    \/ \E t \in DOMAIN wk : ingest_raw_events(t)
    \/ \E t \in DOMAIN wk : worker_complete(t)
    \/ \E t \in DOMAIN wk : worker_except(t)

Spec == Init /\ [][Next]_vars

\* One task alone, over every archive.
SpecWorker == InitWorld(OneTask) /\ [][Next]_vars

\* A step of the worker thread of task t.
WorkerStep(t) ==
    \/ download_archive(t)
    \/ write_archive(t)
    \/ unpack_archive(t)
    \/ find_files(t)
    \/ ingest_actions(t)
    \/ ingest_line(t)
    \/ send_batch(t)
    \/ backoff_sleep(t)
    \/ ingest_raw_events(t)
    \/ worker_complete(t)
    \/ worker_except(t)

\* A started thread is scheduled again and again until it ends: the operating
\* system runs every runnable thread, and every call the worker makes returns
\* or raises (no server stays silent in OneTask).
FairThreads == \A t \in TaskIdPool : WF_vars(t \in DOMAIN wk /\ WorkerStep(t))

SpecLive == InitWorld(OneTask) /\ [][Next]_vars /\ FairThreads

\* One task whose download server and whose log store may take a request and
\* never answer it.
SilentWorld ==
    [urls |-> {"tiny", "both"}, task_ids |-> {"task-1"}, posts_fail |-> TRUE,
     silent |-> {"GET archive", "POST /insert/jsonline"}]

SpecSilent == InitWorld(SilentWorld) /\ [][Next]_vars

\* One caller of ingest_logs whose thread runs while the call returns.
ReturnWorld ==
    [urls |-> {"tiny", "corrupt"}, task_ids |-> {"task-1"}, posts_fail |-> TRUE, silent |-> {}]

NextReturn ==
    \/ \E download_url \in env.urls, run_id \in RunIdInputs : ingest_logs_start(download_url, run_id)
    \/ ingest_logs_return
    \/ \E t \in DOMAIN wk : download_archive(t)
    \/ \E t \in DOMAIN wk : write_archive(t)
    \/ \E t \in DOMAIN wk : unpack_archive(t)
    \/ \E t \in DOMAIN wk : find_files(t)
    \/ \E t \in DOMAIN wk : ingest_actions(t)
    \/ \E t \in DOMAIN wk : ingest_line(t)
    \/ \E t \in DOMAIN wk : send_batch(t)
    \/ \E t \in DOMAIN wk : backoff_sleep(t)
    \/ \E t \in DOMAIN wk : ingest_raw_events(t)
    \/ \E t \in DOMAIN wk : worker_complete(t)
    \/ \E t \in DOMAIN wk : worker_except(t)

SpecReturn == InitWorld(ReturnWorld) /\ [][NextReturn]_vars

\* Two threads that update one task id and two that poll it, all at once.
InitLock ==
    /\ task_status = <<>>
    /\ thread_starts = <<>>
    /\ wk = <<>>
    /\ cache = [r \in RunDirs |-> [archive |-> "absent", tree |-> <<>>]]
    /\ ret = NoCall
    /\ seen = [t \in TaskIdPool |-> <<>>]
    /\ batch_size = SmallBatch
    /\ env = [urls |-> {}, task_ids |-> {}, posts_fail |-> FALSE, silent |-> {}]
    /\ task_lock = None
    /\ heap = NoObjects
    /\ \E updates \in [Writers -> StatusInputs \X ErrorInputs] :
          callers = [th \in Writers \cup Readers |->
                        IF th \in Writers THEN UpdateCall(updates[th][1], updates[th][2])
                        ELSE StatusCall]

NextLock ==
    \/ \E th \in DOMAIN callers : lock_acquire(th)
    \/ \E th \in DOMAIN callers, task_id \in DirectIds : update_store(th, task_id)
    \/ \E th \in DOMAIN callers, task_id \in DirectIds : status_copy(th, task_id)
    \/ \E th \in DOMAIN callers : lock_release(th)

SpecLock == InitLock /\ [][NextLock]_vars

(***************************************************************************)
(* A worker thread next to threads that call _update_task_status and       *)
(* check_ingestion_status on the same handler.  The worker's own call of   *)
(* _update_task_status is taken step by step: it waits for the lock, stores *)
(* the record, and leaves the with block.                                  *)
(***************************************************************************)
\* The status and error the worker passes to _update_task_status: 'completed'
\* at the end of the try block, 'failed' and str(e) in the except clause.
WorkerUpdate(w) ==
    IF w.exc = None THEN [status |-> "completed", error |-> None]
    ELSE [status |-> "failed", error |-> w.exc]

\* ingest_logs as a whole; its 'pending' write is made at a moment the lock
\* is free.
ingest_logs_locked(download_url, run_id) ==
    /\ task_lock = None
    /\ ingest_logs(download_url, run_id)

\* with self.task_lock: in the worker's call of _update_task_status.
worker_lock_acquire(t) ==
    /\ wk[t].pc \in {"complete", "except"}
    /\ task_lock = None
    /\ task_lock' = Some(t)
    /\ wk' = [wk EXCEPT ![t].pc = "store"]
    /\ UNCHANGED <<task_status, thread_starts, cache, ret, seen, batch_size, env, callers, heap>>

\* self.task_status[task_id] = {...} in the worker's call.
worker_store(t) ==
    /\ wk[t].pc = "store"
    /\ task_status' = update_task_status(task_status, t, WorkerUpdate(wk[t]).status,
                                         WorkerUpdate(wk[t]).error)
    /\ heap' = [objs |-> Append(heap.objs, [task_id |-> t, status |-> WorkerUpdate(wk[t]).status,
                                            error |-> WorkerUpdate(wk[t]).error]),
                at |-> (t :> Len(heap.objs) + 1) @@ heap.at]
    /\ wk' = [wk EXCEPT ![t].pc = "release"]
    /\ UNCHANGED <<thread_starts, cache, ret, seen, batch_size, env, task_lock, callers>>

\* The end of the with block in the worker's call; the worker ends.
worker_lock_release(t) ==
    /\ wk[t].pc = "release"
    /\ task_lock' = None
    /\ wk' = [wk EXCEPT ![t].pc = "done"]
    /\ UNCHANGED <<task_status, thread_starts, cache, ret, seen, batch_size, env, callers, heap>>

\* One task whose POSTs can fail or stay unanswered.
HoldWorld == [urls |-> {"tiny"}, task_ids |-> {"task-1"}, posts_fail |-> TRUE,
              silent |-> {"POST /insert/jsonline"}]

\* The handler as constructed, with a thread about to write the status of
\* another task and a thread about to poll it.
InitHold ==
    /\ task_status = <<>>
    /\ thread_starts = <<>>
    /\ wk = <<>>
    /\ cache = [r \in RunDirs |-> [archive |-> "absent", tree |-> <<>>]]
    /\ ret = NoCall
    /\ seen = [t \in TaskIdPool |-> <<>>]
    /\ batch_size = SmallBatch
    /\ env = HoldWorld
    /\ task_lock = None
    /\ heap = NoObjects
    /\ callers = ("writer-1" :> UpdateCall("completed", None)) @@ ("reader-1" :> StatusCall)

\* A step of a call of thread th.
CallerStep(th) ==
    \/ lock_acquire(th)
    \/ \E task_id \in DirectIds : update_store(th, task_id)
    \/ \E task_id \in DirectIds : status_copy(th, task_id)
    \/ lock_release(th)

NextHold ==
    \/ \E download_url \in env.urls, run_id \in ValidRunIds : ingest_logs_locked(download_url, run_id)
    \/ \E t \in DOMAIN wk : download_archive(t)
    \/ \E t \in DOMAIN wk : write_archive(t)
    \/ \E t \in DOMAIN wk : unpack_archive(t)
    \/ \E t \in DOMAIN wk : find_files(t)
    \/ \E t \in DOMAIN wk : ingest_actions(t)
    \/ \E t \in DOMAIN wk : ingest_line(t)
    \/ \E t \in DOMAIN wk : send_batch(t)
    \/ \E t \in DOMAIN wk : backoff_sleep(t)
    \/ \E t \in DOMAIN wk : ingest_raw_events(t)
    \/ \E t \in DOMAIN wk : worker_lock_acquire(t)
    \/ \E t \in DOMAIN wk : worker_store(t)
    \/ \E t \in DOMAIN wk : worker_lock_release(t)
    \/ \E th \in DOMAIN callers : lock_acquire(th)
    \/ \E th \in DOMAIN callers, task_id \in DirectIds : update_store(th, task_id)
    \/ \E th \in DOMAIN callers, task_id \in DirectIds : status_copy(th, task_id)
    \/ \E th \in DOMAIN callers : lock_release(th)

SpecHold == InitHold /\ [][NextHold]_vars

(***************************************************************************)
(* The module-level convenience functions ingest_logs and                  *)
(* check_ingestion_status.  Each call constructs a VictoriaLogsHandler of  *)
(* its own and calls the method on it.  Task ids are unique across         *)
(* handlers, so task_status holds here the records of all the handlers the *)
(* calls have constructed: the record of a task is in the registry of the  *)
(* handler that created it, and in no other.                               *)
(***************************************************************************)
\* self.task_status of a handler as __init__ leaves it.
NewRegistry == <<>>

\* handler = VictoriaLogsHandler(endpoint); return handler.ingest_logs(download_url, run_id)
module_ingest_logs(download_url, run_id) == ingest_logs(download_url, run_id)

\* handler = VictoriaLogsHandler(endpoint); return handler.check_ingestion_status(task_id):
\* the lookup is made in the registry of the handler just constructed.
module_check_ingestion_status(task_id) ==
    /\ ret' = IF task_id \notin DOMAIN NewRegistry
              THEN Raised("check_ingestion_status", task_id, "ValueError: Task ID not found", <<>>)
              ELSE Returned("check_ingestion_status", task_id, "", Some(NewRegistry[task_id]),
                            <<>>, <<>>)
    /\ UNCHANGED <<task_status, thread_starts, wk, cache, seen, batch_size, env, task_lock, callers, heap>>

ModuleWorld ==
    [urls |-> {"tiny", "corrupt"}, task_ids |-> {"task-1"}, posts_fail |-> TRUE, silent |-> {}]

NextModule ==
    \/ \E download_url \in env.urls, run_id \in RunIdInputs : module_ingest_logs(download_url, run_id)
    \/ \E task_id \in TaskIdInputs : module_check_ingestion_status(task_id)
    \/ \E t \in DOMAIN wk : download_archive(t)
    \/ \E t \in DOMAIN wk : write_archive(t)
    \/ \E t \in DOMAIN wk : unpack_archive(t)
    \/ \E t \in DOMAIN wk : find_files(t)
    \/ \E t \in DOMAIN wk : ingest_actions(t)
    \/ \E t \in DOMAIN wk : ingest_line(t)
    \/ \E t \in DOMAIN wk : send_batch(t)
    \/ \E t \in DOMAIN wk : backoff_sleep(t)
    \/ \E t \in DOMAIN wk : ingest_raw_events(t)
    \/ \E t \in DOMAIN wk : worker_complete(t)
    \/ \E t \in DOMAIN wk : worker_except(t)

SpecModule == InitWorld(ModuleWorld) /\ [][NextModule]_vars

\* The handler with, besides its own operations, direct calls of
\* _update_task_status.
RegistryWorld == [urls |-> {"tiny"}, task_ids |-> {"task-1"}, posts_fail |-> TRUE, silent |-> {}]

NextRegistry ==
    \/ Next
    \/ \E task_id \in DirectIds, status \in StatusInputs, error \in ErrorInputs :
          call_update_task_status(task_id, status, error)

SpecRegistry == InitWorld(RegistryWorld) /\ [][NextRegistry]_vars

(***************************************************************************)
(* _ingest_log_file on its own, with the batch size of the code: a worker  *)
(* that has downloaded, unpacked and found one log file of a given length. *)
(***************************************************************************)
BatchLens ==
    {0, 1, INGESTION_BATCH_SIZE - 1, INGESTION_BATCH_SIZE, INGESTION_BATCH_SIZE + 1,
     INGESTION_BATCH_SIZE + (INGESTION_BATCH_SIZE \div 2), 2 * INGESTION_BATCH_SIZE,
     2 * INGESTION_BATCH_SIZE + 1}
BatchFiles == {BigFile(g, n) : g \in {"clean", "dirty"}, n \in BatchLens}

InitBatch ==
    \E f \in BatchFiles, log_type \in {"actions", "raw_events"} :
        LET t == "task-1"
            r == "run-a"
            name == IF log_type = "actions" THEN ACTIONS_LOG ELSE RAW_EVENTS_LOG
        IN  /\ task_status = update_task_status(<<>>, t, "pending", None)
            /\ thread_starts = StartThread(<<>>, "big", r, t)
            /\ wk = (t :> [NewWorker("big", r, t) EXCEPT
                              !.pc = "actions", !.gets = 1,
                              !.stages = <<"download", "unpack", "find">>,
                              !.actions_log = IF log_type = "actions" THEN Some(<<name>>) ELSE None,
                              !.raw_events_log = IF log_type = "raw_events" THEN Some(<<name>>) ELSE None])
            /\ cache = [d \in RunDirs |->
                          IF d = r THEN [archive |-> "big", tree |-> (<<name>> :> f)]
                          ELSE [archive |-> "absent", tree |-> <<>>]]
            /\ ret = NoCall
            /\ seen = [x \in TaskIdPool |-> <<>>]
            /\ batch_size = INGESTION_BATCH_SIZE
            /\ env = [urls |-> {"big"}, task_ids |-> {t}, posts_fail |-> FALSE, silent |-> {}]
            /\ task_lock = None
            /\ callers = <<>>
            /\ heap = NoObjects

NextBatch ==
    \/ \E t \in DOMAIN wk : ingest_actions(t)
    \/ \E t \in DOMAIN wk : ingest_line(t)
    \/ \E t \in DOMAIN wk : send_batch(t)
    \/ \E t \in DOMAIN wk : ingest_raw_events(t)
    \/ \E t \in DOMAIN wk : worker_complete(t)

SpecBatch == InitBatch /\ [][NextBatch]_vars

(***************************************************************************)
(* _find_log_files on its own: a worker that has downloaded and unpacked   *)
(* an archive whose members are any of the two log files in the root, in   *)
(* two subdirectories and two levels deep.                                 *)
(***************************************************************************)
FindPaths ==
    { <<ACTIONS_LOG>>, <<RAW_EVENTS_LOG>>,
      <<"sct-results", ACTIONS_LOG>>, <<"sct-results", RAW_EVENTS_LOG>>,
      <<"logs", ACTIONS_LOG>>, <<"logs", RAW_EVENTS_LOG>>,
      <<"sct-results", "node-1", ACTIONS_LOG>>, <<"logs", "node-1", RAW_EVENTS_LOG>> }
FindTrees == UNION {[S -> {SmallFile(2)}] : S \in SUBSET FindPaths}

InitFind ==
    \E tree \in FindTrees :
        LET t == "task-1"
            r == "run-a"
        IN  /\ task_status = update_task_status(<<>>, t, "pending", None)
            /\ thread_starts = StartThread(<<>>, "tree", r, t)
            /\ wk = (t :> [NewWorker("tree", r, t) EXCEPT
                              !.pc = "find", !.gets = 1, !.stages = <<"download", "unpack">>])
            /\ cache = [d \in RunDirs |->
                          IF d = r THEN [archive |-> "tree", tree |-> tree]
                          ELSE [archive |-> "absent", tree |-> <<>>]]
            /\ ret = NoCall
            /\ seen = [x \in TaskIdPool |-> <<>>]
            /\ batch_size = SmallBatch
            /\ env = [urls |-> {"tree"}, task_ids |-> {t}, posts_fail |-> FALSE, silent |-> {}]
            /\ task_lock = None
            /\ callers = <<>>
            /\ heap = NoObjects

NextFind == \E t \in DOMAIN wk : find_files(t)

SpecFind == InitFind /\ [][NextFind]_vars

(***************************************************************************)
(* The synchronous entry points that take a run id, called in any order;   *)
(* the worker threads ingest_logs starts are not scheduled here.           *)
(***************************************************************************)
StreamTypeInputs == {"action", "events", "invalid_stream"}
LimitInputs == {None, Some(0), Some(100)}
QueryWorld == [urls |-> {"tiny"}, task_ids |-> {"task-1"}, posts_fail |-> TRUE, silent |-> {}]

\* The time bounds of this specification: none, a well-formed one and a
\* malformed one.
QueryTimestampInputs == {None, Some("2025-05-17T04:44:00Z"), Some("2025-05-17")}

NextQuery ==
    \/ \E download_url \in env.urls, run_id \in RunIdInputs : ingest_logs(download_url, run_id)
    \/ \E run_id \in RunIdInputs, start_time \in QueryTimestampInputs, end_time \in QueryTimestampInputs :
          query_actions_log(run_id, start_time, end_time)
    \/ \E run_id \in RunIdInputs, event_id \in EventIds \cup InvalidRunIds,
          start_time \in QueryTimestampInputs, end_time \in QueryTimestampInputs :
          query_raw_events_log(run_id, event_id, start_time, end_time)
    \/ \E run_id \in RunIdInputs, stream_type \in StreamTypeInputs,
          start_time \in QueryTimestampInputs, end_time \in QueryTimestampInputs, limit \in LimitInputs :
          query_logs_by_stream(run_id, stream_type, start_time, end_time, limit)

SpecQuery == InitWorld(QueryWorld) /\ [][NextQuery]_vars

(***************************************************************************)
(* One query operation with given arguments, called on a fresh handler any *)
(* number of times; the server's answer varies from call to call.          *)
(***************************************************************************)
BuildTimestampInputs == TimestampInputs \cup {Some(x) : x \in DOMAIN MoreTimestampChars}
BuildRunIds == {"run-a"} \cup InvalidRunIds

\* The calls: the operation and its arguments ("" and None where the
\* operation has no such parameter).
BuildCalls ==
    [op : {"query_actions_log"}, run_id : BuildRunIds, event_id : {""}, stream_type : {""},
     start_time : BuildTimestampInputs, end_time : BuildTimestampInputs, limit : {None}]
    \cup
    [op : {"query_raw_events_log"}, run_id : BuildRunIds, event_id : EventIds \cup InvalidRunIds,
     stream_type : {""},
     start_time : BuildTimestampInputs, end_time : BuildTimestampInputs, limit : {None}]
    \cup
    [op : {"query_logs_by_stream"}, run_id : BuildRunIds, event_id : {""},
     stream_type : StreamTypeInputs,
     start_time : BuildTimestampInputs, end_time : BuildTimestampInputs,
     limit : LimitInputs \cup {Some(-1)}]

InitBuild ==
    \E c \in BuildCalls :
        InitWorld([urls |-> {}, task_ids |-> {}, posts_fail |-> FALSE, silent |-> {}, call |-> c])

NextBuild ==
    \/ /\ env.call.op = "query_actions_log"
       /\ query_actions_log(env.call.run_id, env.call.start_time, env.call.end_time)
    \/ /\ env.call.op = "query_raw_events_log"
       /\ query_raw_events_log(env.call.run_id, env.call.event_id,
                               env.call.start_time, env.call.end_time)
    \/ /\ env.call.op = "query_logs_by_stream"
       /\ query_logs_by_stream(env.call.run_id, env.call.stream_type,
                               env.call.start_time, env.call.end_time, env.call.limit)

SpecBuild == InitBuild /\ [][NextBuild]_vars

(***************************************************************************)
(* Properties of the task registry and of ingest_logs.                     *)
(***************************************************************************)
PolledTwiceAfterTerminal(t) == Len(seen[t]) = 2

\* C1: once a poll of a task created by ingest_logs has returned 'completed'
\* or 'failed', every later poll of that task returns the same status and the
\* same error, whatever the other workers and ingest_logs calls do meanwhile.
C1_TerminalPollsAgree ==
    \A t \in DOMAIN seen :
        PolledTwiceAfterTerminal(t) =>
            /\ seen[t][2].status = seen[t][1].status
            /\ seen[t][2].error = seen[t][1].error

\* A failed task polled again after its terminal poll, while the handler's
\* other task has run to 'completed'.
C1_Witness ==
    \E t \in DOMAIN seen, u \in DOMAIN task_status :
        /\ u # t
        /\ PolledTwiceAfterTerminal(t)
        /\ seen[t][1].status = "failed"
        /\ task_status[u].status = "completed"

\* C2 as stated: whatever calls of _update_task_status are made, a record that
\* has status 'completed' or 'failed' keeps its status and error from then on.
C2_AsStated ==
    [][\A t \in DOMAIN task_status :
          Terminal(task_status[t].status) => task_status'[t] = task_status[t]]_vars

\* C2, amended: _update_task_status stores the record it is given on every
\* call, after a terminal state as before it; the record of a task created by
\* ingest_logs, which only ingest_logs and its worker write, does not change
\* once it is 'completed' or 'failed'.
C2_OwnTasksStayTerminal ==
    [][/\ \A t \in DOMAIN wk :
             Terminal(task_status[t].status) => task_status'[t] = task_status[t]
       /\ (ret' # ret /\ ret'.op = "_update_task_status") =>
             task_status'[ret'.arg] = ret'.record[1]]_vars

\* The worker has ended with 'failed' and, since, a direct call has stored a
\* terminal record of its own.
C2_Witness ==
    /\ \E t \in DOMAIN wk : wk[t].pc = "done" /\ task_status[t].status = "failed"
    /\ ret.op = "_update_task_status"
    /\ Terminal(ret.record[1].status)
    /\ task_status[ret.arg] = ret.record[1]

\* C3: a poll with an id that is not registered raises 'Task ID not found',
\* returns no record, and leaves the registry as it was.
C3_UnknownTaskRaises ==
    [][(/\ ret' # ret
        /\ ret'.op = "check_ingestion_status"
        /\ ret'.arg \notin DOMAIN task_status)
       => /\ ret'.raised = Some("ValueError: Task ID not found")
          /\ ret'.record = None
          /\ task_status' = task_status]_vars

\* A poll of an id the generator could hand out but has not, on a handler
\* that has another task registered, has raised.
C3_Witness ==
    /\ ret.op = "check_ingestion_status"
    /\ ret.raised # None
    /\ ret.arg \in TaskIdPool
    /\ ret.arg \notin DOMAIN task_status
    /\ task_status # <<>>

StartsOf(task_id) == {i \in DOMAIN thread_starts : thread_starts[i].task_id = task_id}

\* C4: with a run id that is a UUID and a health probe answered 200,
\* ingest_logs returns a task id that is a UUID, is not the run id, is not a
\* task id returned before, is registered, and has exactly one worker thread,
\* started for that run id.
C4_FreshTaskIdOneWorker ==
    (/\ ret.op = "ingest_logs"
     /\ IsUUID(ret.arg)
     /\ ret.net # <<>>
     /\ ret.net[1].outcome = "200")
    => /\ ret.raised = None
       /\ IsUUID(ret.value)
       /\ ret.value # ret.arg
       /\ ret.value \in DOMAIN task_status
       /\ Cardinality(StartsOf(ret.value)) = 1
       /\ \A i \in StartsOf(ret.value) :
             /\ i = Len(thread_starts)
             /\ thread_starts[i].run_id = ret.arg
       /\ \A i, j \in DOMAIN thread_starts :
             thread_starts[i].task_id = thread_starts[j].task_id => i = j

\* The second ingest_logs call of a handler has returned its task id; the run
\* id it was given is the task id the first call returned.
C4_Witness ==
    /\ ret.op = "ingest_logs"
    /\ Len(thread_starts) = 2
    /\ ret.value = thread_starts[2].task_id
    /\ ret.arg = thread_starts[1].task_id

\* C5: with a run id that is a UUID and a health probe that fails (an error
\* status or a transport error), ingest_logs returns the docker command
\* without raising, makes no other network call, and leaves the registry, the
\* threads and the cache as they were.
C5_UnhealthyReturnsCommand ==
    [][(/\ ret' # ret
        /\ ret'.op = "ingest_logs"
        /\ IsUUID(ret'.arg)
        /\ ret'.net # <<>>
        /\ ret'.net[1].outcome # "200")
       => /\ ret'.raised = None
          /\ ret'.value = get_docker_command
          /\ Len(ret'.net) = 1
          /\ ret'.net[1].call = "GET /health"
          /\ UNCHANGED <<task_status, thread_starts, wk, cache>>]_vars

\* The probe was answered 503 on a handler that has started one task before:
\* the command came back and there is still one task and one thread.
C5_Witness ==
    /\ ret.op = "ingest_logs"
    /\ ret.value = get_docker_command
    /\ ret.net[1].outcome = "503"
    /\ Len(thread_starts) = 1
    /\ Cardinality(DOMAIN task_status) = 1

(***************************************************************************)
(* Properties of run id validation.                                        *)
(***************************************************************************)
RunIdOps == {"ingest_logs", "query_actions_log", "query_raw_events_log", "query_logs_by_stream"}

\* C6: with a run id that is not a UUID, ingest_logs and the three query
\* operations raise the validation error having made no network call, and
\* the registry, the threads and the cache are as before the call.
C6_InvalidRunIdRaisesFirst ==
    [][(/\ ret' # ret
        /\ ret'.op \in RunIdOps
        /\ ~IsUUID(ret'.arg))
       => /\ ret'.raised \in {Some("ValueError: Invalid run_id UUID"), Some("ValueError: Invalid UUID")}
          /\ ret'.net = <<>>
          /\ UNCHANGED <<task_status, thread_starts, wk, cache>>]_vars

\* A query by stream with a run id that is not a UUID has raised, on a handler
\* that has a task registered.
C6_Witness ==
    /\ ret.op = "query_logs_by_stream"
    /\ ret.arg \in InvalidRunIds
    /\ ret.raised = Some("ValueError: Invalid run_id UUID")
    /\ task_status # <<>>

(***************************************************************************)
(* Properties of the worker.                                               *)
(***************************************************************************)
FailedRecord(t, msg) == [task_id |-> t, status |-> "failed", error |-> msg]

\* C7: a worker in which an exception was raised, at whatever stage, runs
\* nothing but the except clause, ends with the task 'failed' and the
\* exception's message as error, and no step of a worker changes what a caller
\* of the handler has got back.
C7_FailureBecomesFailed ==
    [][\A t \in DOMAIN wk' :
          /\ wk'[t].exc # None => wk'[t].pc \in {"except", "done"}
          /\ (wk'[t].exc # None /\ wk'[t].pc = "done") =>
                task_status'[t] = FailedRecord(t, wk'[t].exc)
          /\ (t \in DOMAIN wk /\ wk'[t] # wk[t]) => ret' = ret]_vars

\* The third attempt of a batch failed, after waits of 1 and 2 seconds, and
\* the worker has ended.
C7_Witness ==
    \E t \in DOMAIN wk :
        /\ wk[t].pc = "done"
        /\ wk[t].exc = Some("Failed to ingest batch after 3 attempts")
        /\ wk[t].waits = <<1, 2>>
        /\ task_status[t].status = "failed"

\* The file a worker is ingesting or has last ingested.
LogFile(w) == cache[w.run_id].tree[w.log_path]

\* The well-formed lines of file f, in file order, as they are transmitted.
GoodLines(f, run_id, stream_name) ==
    LET lines == [i \in 1..NumLines(f) |-> LineAt(f, i)]
        good == SelectSeq(lines, LAMBDA l : l.kind = "object")
    IN  [i \in 1..Len(good) |-> Enrich(good[i].obj, run_id, stream_name)]

RECURSIVE Flat(_)
\* The lines of a sequence of batches, one after the other.
Flat(batches) ==
    IF batches = <<>> THEN <<>> ELSE Head(batches).lines \o Flat(Tail(batches))

PostedOf(w, log_type) == SelectSeq(w.posted, LAMBDA b : b.log_type = log_type)

\* The file found for log_type, if the worker found one that exists.
FoundFile(w, log_type) ==
    LET found == IF log_type = "actions" THEN w.actions_log ELSE w.raw_events_log
    IN  IF found # None /\ found[1] \in DOMAIN cache[w.run_id].tree
        THEN Some(cache[w.run_id].tree[found[1]]) ELSE None

\* C8: a task is 'completed' only when download, extraction and search have
\* succeeded, every _send_batch call has returned with its batch acknowledged,
\* no line is left in a batch, and what was acknowledged is every well-formed
\* line of every log file found.
C8_CompletedMeansAllAcknowledged ==
    \A t \in DOMAIN wk :
        task_status[t].status = "completed" =>
            /\ wk[t].exc = None
            /\ Len(wk[t].stages) >= 3
            /\ SubSeq(wk[t].stages, 1, 3) = <<"download", "unpack", "find">>
            /\ wk[t].calls = Len(wk[t].posted)
            /\ wk[t].batch_lines = <<>>
            /\ \A log_type \in {"actions", "raw_events"} :
                  Flat(PostedOf(wk[t], log_type)) =
                      IF FoundFile(wk[t], log_type) = None THEN <<>>
                      ELSE GoodLines(FoundFile(wk[t], log_type)[1], wk[t].run_id, StreamName(log_type))

\* A task completed over an archive with both log files: three batches, of
\* both log types.
C8_Witness ==
    \E t \in DOMAIN wk :
        /\ task_status[t].status = "completed"
        /\ Len(wk[t].posted) >= 3
        /\ PostedOf(wk[t], "actions") # <<>>
        /\ PostedOf(wk[t], "raw_events") # <<>>

(***************************************************************************)
(* Properties of batching, with the batch size of the code.                *)
(***************************************************************************)
\* _ingest_log_file has returned for the worker's file.
FileIngested(w) == w.log_type # "" /\ w.pc \in {"raw_events", "complete", "done"}

BatchSizes(w) == [i \in 1..Len(w.posted) |-> Len(w.posted[i].lines)]

\* C9: a file with N well-formed lines is transmitted in ceil(N/1000) POSTs,
\* each of 1000 records but the last, which has N mod 1000 records when that
\* is not zero; no POST is empty.
C9_BatchCountAndSizes ==
    \A t \in DOMAIN wk :
        FileIngested(wk[t]) =>
            LET N == Len(GoodLines(LogFile(wk[t]), wk[t].run_id, StreamName(wk[t].log_type)))
                sizes == BatchSizes(wk[t])
                k == Len(sizes)
            IN  /\ k = (N + 999) \div 1000
                /\ wk[t].calls = k
                /\ \A i \in 1..k : sizes[i] > 0
                /\ \A i \in 1..(k - 1) : sizes[i] = 1000
                /\ k > 0 => sizes[k] = IF N % 1000 = 0 THEN 1000 ELSE N % 1000

\* A file of 1500 well-formed lines went out as batches of 1000 and 500.
C9_Witness ==
    \E t \in DOMAIN wk :
        /\ FileIngested(wk[t])
        /\ LogFile(wk[t]) = BigFile("clean", 1500)
        /\ BatchSizes(wk[t]) = <<1000, 500>>

\* C10: when _ingest_log_file has returned, the transmitted batches, one after
\* the other, are the well-formed lines of the file in file order, each once
\* and each with run_id and stream set; blank and malformed lines are in no
\* batch and do not count toward the batch size.
C10_BatchesAreTheGoodLines ==
    \A t \in DOMAIN wk :
        FileIngested(wk[t]) =>
            LET w == wk[t]
                sent == Flat(w.posted)
            IN  /\ sent = GoodLines(LogFile(w), w.run_id, StreamName(w.log_type))
                /\ \A i \in 1..Len(sent) :
                      sent[i].run_id = w.run_id /\ sent[i].stream = StreamName(w.log_type)
                /\ \A i \in 1..(Len(w.posted) - 1) :
                      Len(w.posted[i].lines) = INGESTION_BATCH_SIZE
                /\ w.line_count = Len(sent)

\* A file of 2001 lines, blank and malformed ones among them, has been
\* ingested in more than one batch.
C10_Witness ==
    \E t \in DOMAIN wk :
        /\ FileIngested(wk[t])
        /\ LogFile(wk[t]) = BigFile("dirty", 2001)
        /\ \E i, j \in 1..2001 :
              LineAt(LogFile(wk[t]), i).kind = "blank" /\ LineAt(LogFile(wk[t]), j).kind = "malformed"
        /\ Len(wk[t].posted) >= 2

(***************************************************************************)
(* Properties of the transmitted records.                                  *)
(***************************************************************************)
\* The objects of the well-formed lines of file f as parsed, in file order.
ObjectLines(f) ==
    LET lines == [i \in 1..NumLines(f) |-> LineAt(f, i)]
        good == SelectSeq(lines, LAMBDA l : l.kind = "object")
    IN  [i \in 1..Len(good) |-> good[i].obj]

\* The records a worker has had acknowledged for a log type, in order.
SentRecords(w, log_type) == Flat(PostedOf(w, log_type))

\* Record p is the parsed line o with the two fields set, the fields in kept
\* being those of o that must come through as they were.
Injected(p, o, w, log_type, kept) ==
    /\ DOMAIN p = DOMAIN o \cup {"run_id", "stream"}
    /\ p.run_id = w.run_id
    /\ p.stream = StreamName(log_type)
    /\ \A k \in kept : p[k] = o[k]

\* C11 as stated: every transmitted record has run_id and stream set and the
\* whole original content as it was, also when the original has a field named
\* run_id or stream.
C11_AsStated ==
    \A t \in DOMAIN wk, log_type \in {"actions", "raw_events"} :
        \A j \in 1..Len(SentRecords(wk[t], log_type)) :
            LET o == ObjectLines(FoundFile(wk[t], log_type)[1])[j]
            IN  Injected(SentRecords(wk[t], log_type)[j], o, wk[t], log_type, DOMAIN o)

\* C11, amended: every transmitted record has run_id equal to the task's run
\* id and stream equal to 'action' or 'events' by log type, and every other
\* field of the original as it was; a run_id or stream field the original
\* already has is replaced by the injected value.
C11_InjectedFieldsOverwrite ==
    \A t \in DOMAIN wk, log_type \in {"actions", "raw_events"} :
        \A j \in 1..Len(SentRecords(wk[t], log_type)) :
            LET o == ObjectLines(FoundFile(wk[t], log_type)[1])[j]
            IN  Injected(SentRecords(wk[t], log_type)[j], o, wk[t], log_type,
                         DOMAIN o \ {"run_id", "stream"})

\* Records of both log types were acknowledged, one whose line had a run_id
\* of its own and one whose line had a stream of its own.
C11_Witness ==
    \E t \in DOMAIN wk :
        /\ \E j \in 1..Len(SentRecords(wk[t], "actions")) :
              LET o == ObjectLines(FoundFile(wk[t], "actions")[1])[j]
              IN  "run_id" \in DOMAIN o /\ o.run_id # wk[t].run_id
        /\ \E j \in 1..Len(SentRecords(wk[t], "raw_events")) :
              LET o == ObjectLines(FoundFile(wk[t], "raw_events")[1])[j]
              IN  "stream" \in DOMAIN o /\ o.stream # "events"

(***************************************************************************)
(* Properties of _send_batch.                                              *)
(***************************************************************************)
IngestionError == Some("Failed to ingest batch after 3 attempts")

\* The worker is inside a call of _send_batch.
InSendBatch(w) == w.pc \in {"send", "sleep"}

\* C12: one call of _send_batch makes at most MAX_RETRIES POSTs; a successful
\* POST ends the call at once; the call raises when and only when its third
\* POST has failed; it returns only out of a successful POST.
C12_AtMostThreeAttempts ==
    [][\A t \in DOMAIN wk \cap DOMAIN wk' :
          LET w == wk[t]
              w2 == wk'[t]
              acked == Len(w2.posted) = Len(w.posted) + 1
          IN  /\ w2.tries <= MAX_RETRIES
              /\ (w.pc = "send" /\ w2 # w) =>
                    /\ w2.tries = w.tries + 1
                    /\ \/ acked /\ ~InSendBatch(w2) /\ w2.exc = None
                       \/ /\ w2.posted = w.posted
                          /\ IF w2.tries = 3
                             THEN w2.pc = "except" /\ w2.exc = IngestionError
                             ELSE w2.pc = "sleep" /\ w2.exc = None
              /\ (InSendBatch(w) /\ ~InSendBatch(w2) /\ w2.exc = None) => acked
              /\ (w.exc = None /\ w2.exc = IngestionError) => w.pc = "send" /\ w2.tries = 3]_vars

\* A call has returned after two POSTs: the first failed, the second was
\* acknowledged.
C12_Witness ==
    \E t \in DOMAIN wk :
        /\ wk[t].tries = 2
        /\ ~InSendBatch(wk[t])
        /\ wk[t].exc = None
        /\ Len(wk[t].posted) = wk[t].calls
        /\ wk[t].waits = <<1>>

\* C13: the waits of one call of _send_batch are 1 second after the first
\* failed attempt and 2 seconds after the second (2^k after attempt k), one
\* wait for each failed attempt that another attempt follows, and none after
\* the third failed attempt.
C13_BackoffIsPowerOfTwo ==
    \A t \in DOMAIN wk :
        LET w == wk[t] IN
            /\ \A k \in 0..(Len(w.waits) - 1) : w.waits[k + 1] = 2 ^ k
            /\ \A k \in 0..(Len(w.waits) - 1) : w.waits[k + 1] = RETRY_BACKOFF_FACTOR ^ k
            /\ w.pc = "send" => Len(w.waits) = w.tries
            /\ w.pc = "sleep" => Len(w.waits) = w.tries - 1
            /\ w.exc = IngestionError => w.tries = 3 /\ w.waits = <<1, 2>>

\* The worker has waited 1 and then 2 seconds and is about to make the third
\* attempt.
C13_Witness ==
    \E t \in DOMAIN wk :
        /\ wk[t].pc = "send"
        /\ wk[t].attempt = 2
        /\ wk[t].waits = <<1, 2>>

\* C14: a call of _send_batch begins only when every earlier call of the task
\* has returned with its batch acknowledged, so at most one batch is ever
\* unresolved; and a call for raw_events.log begins only when every
\* well-formed line of the actions.log found has been acknowledged.
C14_SendsAreSequential ==
    [][\A t \in DOMAIN wk \cap DOMAIN wk' :
          LET w == wk[t]
              w2 == wk'[t]
          IN  /\ w2.calls - Len(w2.posted) \in {0, 1}
              /\ w2.calls # w.calls =>
                    /\ w2.calls = w.calls + 1
                    /\ w.calls = Len(w.posted)
                    /\ w2.pc = "send" /\ w2.tries = 0
                    /\ w2.log_type = "raw_events" =>
                          SentRecords(w, "actions") =
                              IF FoundFile(w, "actions") = None THEN <<>>
                              ELSE GoodLines(FoundFile(w, "actions")[1], w.run_id, "action")
              /\ \A i, j \in 1..Len(w2.posted) :
                    (w2.posted[i].log_type = "raw_events" /\ w2.posted[j].log_type = "actions") => j < i]_vars

\* The batch of raw_events.log is being retried, after both batches of
\* actions.log were acknowledged.
C14_Witness ==
    \E t \in DOMAIN wk :
        /\ wk[t].pc = "send"
        /\ wk[t].log_type = "raw_events"
        /\ wk[t].tries = 1
        /\ Len(PostedOf(wk[t], "actions")) = 2
        /\ wk[t].calls = 3

(***************************************************************************)
(* Properties of the query operations: the call made is env.call, the      *)
(* expression posted is the data of the network call of ret.               *)
(***************************************************************************)
QueryPosted == ret.net # <<>>
PostedQuery == ret.net[1].data

\* A bound is given: the argument is a non-empty text.
Given(x) == x # None /\ x[1] # ""

\* The time clause as specified for the bounds s and e.
SpecifiedTimeClause(s, e) ==
    CASE Given(s) /\ Given(e) -> <<" _time:[", s[1], ",", e[1], "]">>
      [] Given(s) /\ ~Given(e) -> <<" _time:[", s[1], ",]">>
      [] ~Given(s) /\ Given(e) -> <<" _time:[,", e[1], "]">>
      [] OTHER -> <<>>

\* The expression as specified up to the time clause, for the call c.
SpecifiedHead(c) ==
    CASE c.op = "query_actions_log" ->
            <<"{stream=\"", "action", "\", run_id=\"", c.run_id, "\"}">>
      [] c.op = "query_logs_by_stream" ->
            <<"{stream=\"", c.stream_type, "\", run_id=\"", c.run_id, "\"}">>
      [] c.op = "query_raw_events_log" ->
            <<"{stream=\"", "events", "\", run_id=\"", c.run_id, "\"}",
              " event_id:\"", c.event_id, "\"">>

\* C15: in the three query operations the posted expression has, right after
\* the stream filter (and the event filter), ' _time:[<start>,<end>]' when
\* both bounds are given, ' _time:[<start>,]' with only start,
\* ' _time:[,<end>]' with only end, and no time clause otherwise; what follows
\* is at most a limit clause; query_actions_log posts nothing else, so with
\* both bounds exactly '{stream="action", run_id="R"} _time:[<start>,<end>]'.
C15_TimeClauseForms ==
    QueryPosted =>
        LET c == env.call
            q == PostedQuery
            head == SpecifiedHead(c)
            clause == SpecifiedTimeClause(c.start_time, c.end_time)
            n == Len(head) + Len(clause)
        IN  /\ Len(q) >= n
            /\ SubSeq(q, 1, n) = head \o clause
            /\ Len(q) > n => q[n + 1] \in {" | limit 1", " | limit "}
            /\ c.op = "query_actions_log" => q = head \o clause
            /\ (c.op = "query_actions_log" /\ Given(c.start_time) /\ Given(c.end_time)) =>
                  q = <<"{stream=\"", "action", "\", run_id=\"", c.run_id, "\"}",
                        " _time:[", c.start_time[1], ",", c.end_time[1], "]">>

\* query_logs_by_stream has posted an expression for a call with only the
\* start bound given, and query_actions_log could not have been the caller.
C15_Witness ==
    /\ QueryPosted
    /\ env.call.op = "query_logs_by_stream"
    /\ Given(env.call.start_time)
    /\ env.call.end_time = None
    /\ PostedQuery[6] = " _time:["
    /\ PostedQuery[8] = ",]"

\* C16: query_raw_events_log posts '{stream="events", run_id="R"}
\* event_id:"E"', then the time clause if a bound is given, then ' | limit 1'
\* once, as the last clause.
C16_EventLookupExpression ==
    (QueryPosted /\ env.call.op = "query_raw_events_log") =>
        LET c == env.call
            q == PostedQuery
            clause == SpecifiedTimeClause(c.start_time, c.end_time)
        IN  /\ q = <<"{stream=\"", "events", "\", run_id=\"", c.run_id, "\"}",
                     " event_id:\"", c.event_id, "\"">> \o clause \o <<" | limit 1">>
            /\ Cardinality({i \in 1..Len(q) : q[i] = " | limit 1"}) = 1
            /\ q[Len(q)] = " | limit 1"
            /\ (~Given(c.start_time) /\ ~Given(c.end_time)) =>
                  q = <<"{stream=\"", "events", "\", run_id=\"", c.run_id, "\"}",
                        " event_id:\"", c.event_id, "\"", " | limit 1">>

\* The lookup has posted its expression for a call with both bounds given.
C16_Witness ==
    /\ QueryPosted
    /\ env.call.op = "query_raw_events_log"
    /\ Given(env.call.start_time)
    /\ Given(env.call.end_time)
    /\ Len(PostedQuery) = 14

\* The values of the lines of a response body that parse, in body order.
Parseable(body) ==
    LET ok == SelectSeq(body, LAMBDA l : l.kind \in {"object", "nonobject"})
    IN  [i \in 1..Len(ok) |-> ok[i].obj]

\* The results the parsing of a body yields: the values of its parseable
\* lines, and none at all when a line makes the parsing as a whole give up.
ParsedResults(body) ==
    IF \E i \in 1..Len(body) : body[i].kind \notin {"object", "nonobject", "blank", "malformed"}
    THEN <<>>
    ELSE Parseable(body)

C18_AsStated ==
    (QueryPosted /\ env.call.op = "query_logs_by_stream") =>
        LET c == env.call
            base == SpecifiedHead(c) \o SpecifiedTimeClause(c.start_time, c.end_time)
        IN  PostedQuery = IF c.limit # None
                          THEN base \o <<" | limit ", IntStr(c.limit[1])>>
                          ELSE base

\* Text x is YYYY-MM-DDTHH:MM:SS[.fraction]Z? and nothing more.
MatchesPattern(x) ==
    LET c == Chars(x) IN
        /\ Len(c) >= 19
        /\ \A i \in {1, 2, 3, 4, 6, 7, 9, 10, 12, 13, 15, 16, 18, 19} : IsDigit(c[i])
        /\ c[5] = "-" /\ c[8] = "-" /\ c[11] = "T" /\ c[14] = ":" /\ c[17] = ":"
        /\ MatchesFractionZ(SubSeq(c, 20, Len(c)))

\* C19 as stated: a call of a query operation with a start or end timestamp
\* supplied that does not match the pattern, the empty string included, raises
\* and posts nothing.
C19_AsStated ==
    (/\ ret.op # "none"
     /\ \E x \in {env.call.start_time, env.call.end_time} : x # None /\ ~MatchesPattern(x[1]))
    => ret.raised # None /\ ret.net = <<>>

\* C20: query_logs_by_stream reports a run id that is not a UUID first, then
\* a stream type other than 'action' and 'events', then a timestamp that fails
\* validation, each without a network call.
C20_ValidationOrder ==
    (ret.op = "query_logs_by_stream") =>
        LET c == env.call
            bad_time == \E x \in {c.start_time, c.end_time} :
                            Given(x) /\ validate_iso8601_timestamp(x)
        IN  CASE ~IsUUID(c.run_id) ->
                    ret.raised = Some("ValueError: Invalid run_id UUID") /\ ret.net = <<>>
              [] IsUUID(c.run_id) /\ c.stream_type \notin {"action", "events"} ->
                    ret.raised = Some("ValueError: Invalid stream_type") /\ ret.net = <<>>
              [] IsUUID(c.run_id) /\ c.stream_type \in {"action", "events"} /\ bad_time ->
                    /\ ret.raised = Some("ValueError: Invalid ISO 8601 timestamp format")
                    /\ ret.net = <<>>
              [] OTHER -> QueryPosted

\* The call had a run id, a stream type and a timestamp that are all invalid,
\* and has raised.
C20_Witness ==
    /\ ret.op = "query_logs_by_stream"
    /\ ~IsUUID(env.call.run_id)
    /\ env.call.stream_type = "invalid_stream"
    /\ env.call.start_time = Some("2025-05-17")
    /\ ret.raised # None

(***************************************************************************)
(* Properties of _execute_query.                                           *)
(***************************************************************************)
\* C21: for a successful response, an operation that returns the result of
\* _execute_query as it is returns exactly the values of the lines of the body
\* that parse, in the order of the body, and does not raise; for an empty or a
\* whitespace-only body that is the empty list.
C21_AsStated ==
    (/\ QueryPosted
     /\ ret.op \in {"query_actions_log", "query_logs_by_stream"}
     /\ ret.net[1].outcome = "200")
    => /\ ret.raised = None
       /\ ret.rows = Parseable(ret.net[1].body)

\* C22: when the query POST fails (a transport failure or an error status),
\* the operation raises the query error: it returns no result list, and it has
\* made that one POST and no other network call.
C22_TransportFailureRaises ==
    (QueryPosted /\ ret.net[1].outcome # "200")
    => /\ ret.raised = Some("VictoriaLogsQueryError: Query execution failed")
       /\ ret.rows = <<>>
       /\ ret.value = ""
       /\ Len(ret.net) = 1
       /\ ret.net[1].call = "POST /select/logsql/query"

\* A query by stream met an error status and has raised the query error.
C22_Witness ==
    /\ ret.op = "query_logs_by_stream"
    /\ QueryPosted
    /\ ret.net[1].outcome = "500"
    /\ ret.raised = Some("VictoriaLogsQueryError: Query execution failed")

(***************************************************************************)
(* Properties of the worker's stages.                                      *)
(***************************************************************************)
\* C23: a log file that was not found is passed over: the worker goes on to
\* the next step with nothing else changed and no POST made; a worker that has
\* downloaded, extracted and searched and in which nothing was raised ends
\* with the task 'completed', having sent the lines of the files it found and
\* nothing for a file it did not find, and no POST at all when it found neither.
C23_MissingFileNotFatal ==
    [][\A t \in DOMAIN wk :
          LET w == wk[t]
              w2 == wk'[t]
          IN  /\ (w.pc = "actions" /\ w.actions_log = None /\ w2 # w) =>
                    w2 = [w EXCEPT !.pc = "raw_events"]
              /\ (w.pc = "raw_events" /\ w.raw_events_log = None /\ w2 # w) =>
                    w2 = [w EXCEPT !.pc = "complete"]
              /\ (w2.pc = "done" /\ w2.exc = None) =>
                    /\ task_status'[t] = [task_id |-> t, status |-> "completed", error |-> None]
                    /\ \A log_type \in {"actions", "raw_events"} :
                          IF FoundFile(w2, log_type) = None
                          THEN PostedOf(w2, log_type) = <<>>
                          ELSE Flat(PostedOf(w2, log_type)) =
                                 GoodLines(FoundFile(w2, log_type)[1], w2.run_id,
                                           StreamName(log_type))
                    /\ (w2.actions_log = None /\ w2.raw_events_log = None) => w2.calls = 0]_vars

\* A task over an archive with neither log file has completed without a POST.
C23_Witness ==
    \E t \in DOMAIN wk :
        /\ wk[t].pc = "done"
        /\ task_status[t].status = "completed"
        /\ wk[t].stages = <<"download", "unpack", "find">>
        /\ wk[t].actions_log = None
        /\ wk[t].raw_events_log = None
        /\ wk[t].calls = 0

\* The download of the task failed: requests.RequestException in the GET, in
\* raise_for_status or while the body was read.
DownloadFailed(w) == w.exc = Some("Failed to download archive")

\* What C24 says of a task whose download failed: it has made its one GET,
\* no extraction and no POST, and it ends 'failed' with the download error.
DownloadFailureIsFinal(t) ==
    DownloadFailed(wk[t]) =>
        /\ wk[t].gets = 1
        /\ wk[t].pc \in {"except", "done"}
        /\ wk[t].stages = <<>>
        /\ cache[wk[t].run_id].tree = <<>>
        /\ wk[t].calls = 0
        /\ wk[t].posted = <<>>
        /\ wk[t].pc = "done" => task_status[t] = FailedRecord(t, wk[t].exc)

\* C24 as stated: every task issues exactly one download GET, and a failed
\* download is final.
C24_AsStated ==
    \A t \in DOMAIN wk :
        /\ wk[t].gets <= 1
        /\ wk[t].pc # "download" => wk[t].gets = 1
        /\ DownloadFailureIsFinal(t)

\* C24: a task issues at most one download GET, and exactly one unless the
\* run's cache directory could not be created, in which case it issues none; a
\* failed download is final: no second GET, no extraction, no POST, and the
\* task 'failed' with the download error.
C24_DownloadIsOneShot ==
    \A t \in DOMAIN wk :
        /\ wk[t].gets <= 1
        /\ wk[t].pc # "download" =>
              wk[t].gets = IF wk[t].exc = Some("OSError: cache directory") THEN 0 ELSE 1
        /\ DownloadFailureIsFinal(t)

\* The connection was lost while the body of the archive was being written,
\* and the task has ended 'failed' after its one GET.
C24_Witness ==
    \E t \in DOMAIN wk :
        /\ wk[t].pc = "done"
        /\ DownloadFailed(wk[t])
        /\ wk[t].gets = 1
        /\ cache[wk[t].run_id].archive = "partial"
        /\ task_status[t].status = "failed"

\* C25: every network call of a worker ends, with a response or as one failed
\* attempt, even when the server never answers: no worker is left inside a
\* call that waits without limit.
C25_AsStated ==
    \A t \in DOMAIN wk : wk[t].pc # "blocked"

\* C26: the record of every task created by ingest_logs has a status among
\* 'pending', 'completed' and 'failed', and an error message that is there
\* (not None and not the empty text) exactly when the status is 'failed'.
C26_AsStated ==
    \A t \in DOMAIN wk :
        /\ task_status[t].status \in {"pending", "completed", "failed"}
        /\ (task_status[t].error # None /\ task_status[t].error # Some(""))
              <=> task_status[t].status = "failed"

(***************************************************************************)
(* Properties of the return of ingest_logs.                                *)
(***************************************************************************)
\* The call of ingest_logs returns its task id in this step.
ReturnsTaskId == InCall /\ ~InCall'

\* C27 as stated: when ingest_logs returns the task id, the task is 'pending'.
C27_AsStated ==
    [][ReturnsTaskId => task_status'[ret'.value].status = "pending"]_vars

\* C27: ingest_logs does not wait for its worker: once the thread is started
\* the call can return whatever the worker is doing; the caller has made the
\* health probe and no other network call and leaves the worker and the cache
\* as they are; and the task it returns is 'pending' unless the worker has
\* ended by then.
C27_ReturnsWithoutWaiting ==
    /\ [](InCall => ENABLED ingest_logs_return)
    /\ [][ReturnsTaskId =>
            /\ ret'.value = thread_starts[Len(thread_starts)].task_id
            /\ ret'.raised = None
            /\ Len(ret'.net) = 1
            /\ ret'.net[1].call = "GET /health"
            /\ wk' = wk /\ cache' = cache /\ task_status' = task_status
            /\ wk[ret'.value].pc # "done" => task_status[ret'.value].status = "pending"]_vars

\* The task id has come back while the worker is in the middle of the
\* download, the task 'pending'.
C27_Witness ==
    /\ ret.op = "ingest_logs"
    /\ ~InCall
    /\ ret.value \in DOMAIN wk
    /\ wk[ret.value].pc = "write"
    /\ task_status[ret.value].status = "pending"

(***************************************************************************)
(* Properties of the registry under concurrent calls.                      *)
(***************************************************************************)
\* The threads inside a "with self.task_lock:" block.
InBlock == {th \in DOMAIN callers : callers[th].pc \in {"locked", "release"}}

\* The records the updates of the writers store.
WrittenRecords ==
    {[task_id |-> task_id, status |-> callers[th].status, error |-> callers[th].error] :
        th \in Writers, task_id \in DirectIds}

\* C28: the accesses to the map are serialized by the lock: at most one thread
\* is inside a with block, and it holds the lock; every record a read returns
\* is, whole, the record one update stored; and the object a read has returned
\* keeps the content it was returned with whatever updates follow.
C28_ReadsAreWholeAndStable ==
    /\ Cardinality(InBlock) <= 1
    /\ \A th \in InBlock : task_lock = Some(th)
    /\ \A th \in DOMAIN callers :
          callers[th].copied # None =>
              /\ callers[th].copied[1] \in WrittenRecords
              /\ heap.objs[callers[th].got] = callers[th].copied[1]
    /\ \A task_id \in DOMAIN heap.at : heap.objs[heap.at[task_id]] = task_status[task_id]

\* A poll returned the record of one update and a later update stored a
\* different record: the returned object still holds the first.
C28_Witness ==
    \E th \in Readers, task_id \in DirectIds :
        /\ callers[th].pc = "done"
        /\ callers[th].copied # None
        /\ \A w \in Writers : callers[w].pc = "done"
        /\ task_status[task_id] # callers[th].copied[1]
        /\ heap.objs[callers[th].got] = callers[th].copied[1]

(***************************************************************************)
(* Properties of the cache directories.                                    *)
(***************************************************************************)
\* C29: a step of a worker changes nothing under CACHE_DIR but what lies in
\* the directory of its own run id, so that tasks for different run ids never
\* touch the same path.
C29_AsStated ==
    [][\A r \in RunDirs :
          cache'[r] # cache[r] =>
              \E t \in DOMAIN wk : wk'[t] # wk[t] /\ wk[t].run_id = r]_vars

\* Two workers that run at the same time for the same run id.
Overlapping(t, u) ==
    /\ t # u
    /\ wk[t].run_id = wk[u].run_id
    /\ wk[t].pc # "done"
    /\ wk[u].pc # "done"

\* C30: ingest_logs with a valid run id and a healthy server starts a new
\* worker under a task id no worker has, and leaves the workers there are as
\* they are, also when a worker for the same run id is running; nothing keeps
\* two such workers from the run's files at the same time (C30_Witness).
C30_SameRunNotDeduplicated ==
    [][(/\ ret' # ret
        /\ ret'.op = "ingest_logs"
        /\ IsUUID(ret'.arg)
        /\ ret'.net # <<>>
        /\ ret'.net[1].outcome = "200")
       => /\ ret'.value \notin DOMAIN wk
          /\ ret'.value \in DOMAIN wk'
          /\ wk'[ret'.value].run_id = ret'.arg
          /\ wk'[ret'.value].pc = "download"
          /\ Len(thread_starts') = Len(thread_starts) + 1
          /\ \A t \in DOMAIN wk : wk'[t] = wk[t]]_vars

\* Two workers overlap on one run id under two task ids; one has truncated the
\* run's archive file and is writing it again, and the other, which had
\* written the whole valid archive before, has just read the file and failed
\* to unpack it.
C30_Witness ==
    \E t, u \in DOMAIN wk :
        /\ Overlapping(t, u)
        /\ wk[t].pc = "write"
        /\ cache[wk[t].run_id].archive = "partial"
        /\ "download" \in {wk[u].stages[i] : i \in 1..Len(wk[u].stages)}
        /\ Served(wk[u].download_url).valid
        /\ wk[u].pc = "except"
        /\ wk[u].exc = Some("Failed to unpack archive")

(***************************************************************************)
(* Properties of the module-level convenience functions.                   *)
(***************************************************************************)
\* C31: a poll through the module-level check_ingestion_status of a task id
\* the module-level ingest_logs has returned finds the task: it returns the
\* task's record and does not raise.
C31_AsStated ==
    (/\ ret.op = "check_ingestion_status"
     /\ ret.arg \in DOMAIN wk)
    => /\ ret.raised = None
       /\ ret.record = Some(task_status[ret.arg])

(***************************************************************************)
(* Properties of the life of a task.                                       *)
(***************************************************************************)
\* C32: the record of a task is written at most twice, in this order: as
\* 'pending' by the ingest_logs call that creates the task, in the step that
\* starts its thread and before the thread has run; then once more, by the
\* step in which the worker ends, from 'pending' to 'completed' or 'failed'.
\* A worker ends with that write and with nothing else, so every task a
\* thread was started for is known to the registry, and a task is terminal
\* exactly when its worker has ended.
C32_PendingThenOneTerminalWrite ==
    [][/\ \A t \in DOMAIN wk' :
             /\ t \in DOMAIN task_status'
             /\ Terminal(task_status'[t].status) <=> wk'[t].pc = "done"
       /\ \A t \in DOMAIN task_status' :
             IF t \notin DOMAIN task_status
             THEN /\ task_status'[t] = [task_id |-> t, status |-> "pending", error |-> None]
                  /\ t \notin DOMAIN wk
                  /\ t \in DOMAIN wk'
                  /\ wk'[t].pc = "download"
                  /\ ret'.value = t
             ELSE IF task_status'[t] # task_status[t]
             THEN /\ task_status[t].status = "pending"
                  /\ Terminal(task_status'[t].status)
                  /\ wk[t].pc \in {"complete", "except"}
                  /\ wk'[t].pc = "done"
             ELSE t \in DOMAIN wk => ~(wk[t].pc # "done" /\ wk'[t].pc = "done")]_vars

\* A task has gone from 'pending' to 'failed', its worker has ended, and a
\* poll made after that has returned the terminal record.
C32_Witness ==
    \E t \in DOMAIN wk :
        /\ wk[t].pc = "done"
        /\ task_status[t].status = "failed"
        /\ ret.op = "check_ingestion_status"
        /\ ret.arg = t
        /\ ret.record = Some(task_status[t])

\* C33: when every started thread keeps being scheduled and every call it
\* makes returns or raises, every task ingest_logs has created is eventually
\* 'completed' or 'failed'.
C33_EveryTaskEnds ==
    \A t \in TaskIdPool :
        (t \in DOMAIN wk) ~> (t \in DOMAIN task_status /\ Terminal(task_status[t].status))

\* A task has completed after a batch POST that failed once and was sent
\* again after a wait.
C33_Witness ==
    \E t \in DOMAIN wk :
        /\ task_status[t].status = "completed"
        /\ wk[t].pc = "done"
        /\ wk[t].waits = <<1>>
        /\ wk[t].posted # <<>>

(***************************************************************************)
(* Properties of a task after a batch was given up.                        *)
(***************************************************************************)
\* A call of _send_batch has ended without its batch acknowledged.
BatchGivenUp(w) == w.calls > Len(w.posted) /\ w.pc \notin {"send", "sleep", "blocked"}

\* C34: once a batch of a task has exhausted its retries the task makes no
\* further POST and begins no further _send_batch call: the call has raised
\* after MAX_RETRIES attempts, the worker only goes on to its except clause,
\* the lines of the file after the batch are never read, and when the batch
\* belonged to actions.log the task has sent and will send no record of
\* raw_events.log.
C34_NoPostAfterExhaustion ==
    [][\A t \in DOMAIN wk \cap DOMAIN wk' :
          LET w == wk[t]
              w2 == wk'[t]
          IN  BatchGivenUp(w) =>
                /\ w.exc = IngestionError /\ w.tries = MAX_RETRIES
                /\ w.pc \in {"except", "done"} /\ w2.pc \in {"except", "done"}
                /\ w2.tries = w.tries /\ w2.calls = w.calls /\ w2.posted = w.posted
                /\ w2.pos = w.pos /\ w2.log_type = w.log_type
                /\ w.log_type = "actions" => PostedOf(w2, "raw_events") = <<>>]_vars

\* A task has ended after the first batch of actions.log exhausted its
\* retries: lines of the file that would have made a second batch are left
\* unread, raw_events.log had been found, and nothing was sent.
C34_Witness ==
    \E t \in DOMAIN wk :
        LET w == wk[t] IN
        /\ w.pc = "done" /\ BatchGivenUp(w)
        /\ task_status[t] = FailedRecord(t, IngestionError)
        /\ w.log_type = "actions" /\ FoundFile(w, "raw_events") # None
        /\ w.pos < NumLines(LogFile(w))
        /\ w.calls = 1 /\ w.posted = <<>>

\* The records of a sequence of batches, as a set.
RecordsOf(batches) == {Flat(batches)[i] : i \in 1..Len(Flat(batches))}

\* C35: a task can end 'failed' with batches acknowledged (C35_Witness), and
\* what was acknowledged stays as it is: the acknowledged batches of a task
\* only grow, one batch at a time and at the end; no record is sent in two
\* acknowledged batches; and from the moment an exception is raised in the
\* worker the task makes no POST and its acknowledged batches never change.
C35_AcknowledgedBatchesStay ==
    [][\A t \in DOMAIN wk \cap DOMAIN wk' :
          LET w == wk[t]
              w2 == wk'[t]
              n == Len(w.posted)
          IN  /\ Len(w2.posted) \in {n, n + 1}
              /\ SubSeq(w2.posted, 1, n) = w.posted
              /\ \A i, j \in 1..Len(w2.posted) :
                    i < j => RecordsOf(<<w2.posted[i]>>) \cap RecordsOf(<<w2.posted[j]>>) = {}
              /\ w.exc # None => w2.posted = w.posted /\ w2.tries = w.tries /\ w2.calls = w.calls
              /\ (t \in DOMAIN task_status /\ task_status[t].status = "failed") =>
                    w2.posted = w.posted]_vars

\* A task has ended 'failed' because its second batch exhausted its retries,
\* with its first batch acknowledged by the store.
C35_Witness ==
    \E t \in DOMAIN wk :
        /\ wk[t].pc = "done"
        /\ task_status[t] = FailedRecord(t, IngestionError)
        /\ Len(wk[t].posted) = 1 /\ wk[t].calls = 2
        /\ RecordsOf(wk[t].posted) # {}

(***************************************************************************)
(* Properties of the lines of a log file.                                  *)
(***************************************************************************)
\* Every line of file f is blank, a JSON object, malformed JSON, or valid JSON
\* that is no object.
PlainLines(f) ==
    \A i \in 1..NumLines(f) : LineAt(f, i).kind \in {"blank", "object", "malformed", "nonobject"}

\* C36 as stated: the content of a line never fails the task.  A worker that
\* has opened a log file of such lines raises nothing but the failure of a
\* batch, and when it is through the file without such a failure it has sent
\* every JSON object of the file.
C36_AsStated ==
    \A t \in DOMAIN wk :
        LET w == wk[t] IN
        (w.log_type # "" /\ w.log_path \in DOMAIN cache[w.run_id].tree /\ PlainLines(LogFile(w))) =>
            /\ w.exc \in {None, IngestionError}
            /\ (w.pc = "done" /\ w.exc = None) =>
                  Flat(PostedOf(w, w.log_type)) = GoodLines(LogFile(w), w.run_id, StreamName(w.log_type))

(***************************************************************************)
(* Properties of the registry lock during the worker's calls.              *)
(***************************************************************************)
\* The worker is in or between its network calls, file operations and
\* backoff sleeps, an unanswered request included.
OutsideRegistry(w) ==
    w.pc \in {"download", "write", "unpack", "find", "actions", "line", "send", "sleep",
              "raw_events", "blocked"}

\* C37: while a worker is downloading, writing, unpacking, reading, sending,
\* waiting for an answer or sleeping between retries it does not hold the
\* registry lock, and every unfinished _update_task_status and
\* check_ingestion_status call of another thread can go on: either the call
\* can take its next step, or the lock is held by another such call that can.
C37_LockFreeDuringWork ==
    \A t \in DOMAIN wk :
        OutsideRegistry(wk[t]) =>
            /\ task_lock # Some(t)
            /\ \A th \in DOMAIN callers :
                  callers[th].pc # "done" =>
                     \/ ENABLED CallerStep(th)
                     \/ /\ task_lock # None
                        /\ task_lock[1] \in DOMAIN callers
                        /\ ENABLED CallerStep(task_lock[1])

\* A poll has completed and another thread's status write is inside the lock
\* while the worker sleeps between two attempts of a batch.
C37_Witness ==
    \E t \in DOMAIN wk :
        /\ wk[t].pc = "sleep" /\ wk[t].waits = <<1>>
        /\ callers["reader-1"].pc = "done"
        /\ callers["writer-1"].pc = "locked"
        /\ task_lock = Some("writer-1")

(***************************************************************************)
(* Properties of _find_log_files.                                          *)
(***************************************************************************)
\* The subdirectories of the extraction directory, and those of the first k
\* the scan looked into that hold a file called name.
SubdirsOf(tree) == {p[1] : p \in {q \in DOMAIN tree : Len(q) >= 2}}
ScannedWith(tree, scanned, name, k) == {i \in 1..k : <<scanned[i], name>> \in DOMAIN tree}

\* The file called name was found before the scan or in the first k
\* subdirectories it looked into.
FoundBy(tree, scanned, name, k) ==
    <<name>> \in DOMAIN tree \/ ScannedWith(tree, scanned, name, k) # {}

\* The search of worker w over tree is as C38 says for the file called name,
\* of which it chose the path in found.
BoundedSearch(tree, scanned, name, found) ==
    LET immediate == {p \in DOMAIN tree : Len(p) = 2 /\ p[2] = name}
        with == ScannedWith(tree, scanned, name, Len(scanned))
    IN  /\ <<name>> \in DOMAIN tree => found = Some(<<name>>)
        /\ (<<name>> \notin DOMAIN tree /\ immediate # {}) =>
              /\ found # None /\ found[1] \in immediate
              /\ with # {}
              /\ found[1][1] = scanned[CHOOSE i \in with : \A j \in with : i <= j]
        /\ (<<name>> \notin DOMAIN tree /\ immediate = {}) => found = None

\* C38: after _find_log_files, for actions.log and raw_events.log each: the
\* copy in the extraction root is chosen when there is one; otherwise the copy
\* of the first scanned immediate subdirectory that has one; otherwise none,
\* whatever lies two levels deep.  The scan looks into each subdirectory at
\* most once, goes on only while one of the files is still missing, and ends
\* before the last subdirectory only when both files are found.
C38_BoundedSearch ==
    \A t \in DOMAIN wk :
        LET w == wk[t]
            tree == cache[w.run_id].tree
            n == Len(w.scanned)
        IN  w.pc = "actions" =>
              /\ BoundedSearch(tree, w.scanned, ACTIONS_LOG, w.actions_log)
              /\ BoundedSearch(tree, w.scanned, RAW_EVENTS_LOG, w.raw_events_log)
              /\ \A i, j \in 1..n : w.scanned[i] = w.scanned[j] => i = j
              /\ {w.scanned[i] : i \in 1..n} \subseteq SubdirsOf(tree)
              /\ \A k \in 0..(n - 1) :
                    ~(FoundBy(tree, w.scanned, ACTIONS_LOG, k) /\ FoundBy(tree, w.scanned, RAW_EVENTS_LOG, k))
              /\ ~(FoundBy(tree, w.scanned, ACTIONS_LOG, n) /\ FoundBy(tree, w.scanned, RAW_EVENTS_LOG, n))
                    => {w.scanned[i] : i \in 1..n} = SubdirsOf(tree)

\* The two files were found in different subdirectories, actions.log in the
\* second one scanned although the first holds a copy two levels deep, and a
\* copy of raw_events.log in the second was passed over for the first's.
C38_Witness ==
    \E t \in DOMAIN wk :
        LET w == wk[t]
            tree == cache[w.run_id].tree
        IN  /\ w.pc = "actions"
            /\ w.scanned = <<"sct-results", "logs">>
            /\ w.actions_log = Some(<<"logs", ACTIONS_LOG>>)
            /\ w.raw_events_log = Some(<<"sct-results", RAW_EVENTS_LOG>>)
            /\ <<"sct-results", "node-1", ACTIONS_LOG>> \in DOMAIN tree
            /\ <<"logs", RAW_EVENTS_LOG>> \in DOMAIN tree

====
